---- MODULE Spec2Model ----
(***************************************************************************)
(* Context parsing and completion synthesis of the Quarto extension        *)
(* helpers: the shortcode locator (getShortcodeContext), the classifier    *)
(* (parseAttributeValueContext, analyzeShortcodeContext,                   *)
(* analyzeAttributeOnlyContext) and the providers built on them.           *)
(*                                                                         *)
(* Text is a sequence of one-character strings.  Offsets are 0-based, as   *)
(* in the source: the character at offset i of s is s[i + 1].              *)
(***************************************************************************)
EXTENDS Integers, Sequences, FiniteSets, TLC

VARIABLES
    lineText,       \* document.lineAt(position).text
    cursorPos,      \* position.character
    provider,       \* which provider answered the last request ("none" at start)
    baseContext,    \* result of getShortcodeContext, Null when it returned null
    beforeText,     \* the contentBeforeCursor the provider handed to the classifier
    context,        \* the classified ShortcodeContext, Null when none was produced
    shortcodeSpec,  \* the ShortcodeSpec of the provider that answered, Null if none
    items,          \* the CompletionItems the provider returned
    requestDocument \* what the request read of the document and its directory

VARIABLES
    filterValues,   \* the values handed to filterByPrefix
    filterTyped,    \* the typedText handed to filterByPrefix
    filterResult    \* what filterByPrefix returned, NotCalled before the call

VARIABLES
    frontmatterText,    \* document.getText() handed to parseFrontmatterValues
    frontmatterKey,     \* the key handed to parseFrontmatterValues, split at '.'
    frontmatterValues   \* what parseFrontmatterValues returned

VARIABLES
    finder,             \* "none", "findWorkspaceFile" or "findBrandFile"
    documentUri,        \* the segments of the document's path
    workspaceUri,       \* the segments of the workspace folder's path
    existing,           \* the directories that hold the file looked for
    currentDir,         \* the directory the loop is at
    probed,             \* the directories handed to fs.stat, in order
    found               \* what the search returned

VARIABLES
    specCache,          \* the entries of specCache, in insertion order
    fileDataCache,      \* the entries of fileDataCache, in insertion order
    allocated,          \* how many objects yaml.load and JSON.parse have created
    lastCall,           \* the latest call: its function, key and result, whether
                        \* it read a file, and lastObject and since of the key before
    lastObject,         \* per key, the object its latest successful call returned
    since               \* per key, what happened to its entry since that call:
                        \* "none", "read", "evicted", "read, evicted" or "cleared"

VARIABLES
    usedContent,        \* the fullContent handed to getUsedAttributes
    usedDeclared,       \* the names of the attributes handed to getUsedAttributes
    usedResult          \* the set getUsedAttributes returned, NotUsedYet before the call

VARIABLES
    rankCategories,     \* per declared attribute, its category ("" for none)
    rankSortTexts       \* per declared attribute, the sortText of its item

VARIABLES
    spanLine,           \* the lineText handed to getSpanContext
    spanCursor,         \* the cursorPos handed to getSpanContext
    spanContext         \* what getSpanContext returned, NoSpanYet before the call

VARIABLES
    documents,          \* per URI of an open document, its version and its text
    cachedFunction,     \* the function whose cache the behaviour follows
    versionCache,       \* filterCache or acronymCache: the entries in insertion order
    lastAnswer          \* what the last call returned, NoAnswerYet before the first call

VARIABLES
    brandFiles,         \* per _brand.yml of the workspace, whether it exists, its mtime and its text
    brandColorCache,    \* brandColorCache: the entries in insertion order
    brandRequests       \* per call of getBrandColors, where it stands and what it has read

\* The variables of a completion request.
requestVars ==
    <<lineText, cursorPos, provider, baseContext, beforeText, context,
      shortcodeSpec, items, requestDocument>>

\* The variables of a call of filterByPrefix.
filterVars == <<filterValues, filterTyped, filterResult>>

\* The variables of a call of parseFrontmatterValues.
frontmatterVars == <<frontmatterText, frontmatterKey, frontmatterValues>>

\* The variables of a search for a file of the workspace.
findVars == <<finder, documentUri, workspaceUri, existing, currentDir, probed, found>>

\* The variables of the spec loader and of what its callers have seen.
cacheVars == <<specCache, fileDataCache, allocated, lastCall, lastObject, since>>

\* The variables of a call of getUsedAttributes.
usedVars == <<usedContent, usedDeclared, usedResult>>

\* The variables of the ranking of attribute names.
rankVars == <<rankCategories, rankSortTexts>>

\* The variables of a call of getSpanContext.
spanVars == <<spanLine, spanCursor, spanContext>>

\* The variables of the caches that are keyed by document and version.
documentVars == <<documents, cachedFunction, versionCache, lastAnswer>>

\* The variables of the brand colour cache and of the requests that use it.
brandVars == <<brandFiles, brandColorCache, brandRequests>>

vars ==
    <<requestVars, filterVars, frontmatterVars, findVars,
      cacheVars, usedVars, rankVars, spanVars,
      documentVars, brandVars>>

\* ---------------------------------------------------------------------------
\* Bounds of the model
\* ---------------------------------------------------------------------------

\* A free line is made of at most MaxPieces pieces (see Pieces).
MaxPieces == 3

\* A framed line holds at most MaxBody characters between its markers.
MaxBody == 3

\* A well-formed line holds at most MaxTokens tokens between its markers.
MaxTokens == 2

\* One instance of a two-instance line holds at most MaxPairBody characters.
MaxPairBody == 1

\* ---------------------------------------------------------------------------
\* Characters and JavaScript string primitives
\* ---------------------------------------------------------------------------

\* What /\s/ and String.prototype.trim treat as white space (space and tab here).
WhiteSpace == {" ", "\t"}

\* What /\w/ matches, within the alphabet of the model.
WordChars == {"n", "a", "b"}

\* What /["']/ matches.
QuoteChars == {"\"", "'"}

Min(a, b) == IF a <= b THEN a ELSE b

Max(a, b) == IF a >= b THEN a ELSE b

\* s.substring(a, b): both ends clamped to [0, s.length], swapped when a > b.
Substring(s, a, b) ==
    LET ca == Max(0, Min(a, Len(s)))
        cb == Max(0, Min(b, Len(s)))
    IN  SubSeq(s, Min(ca, cb) + 1, Max(ca, cb))

\* s.substring(a)
SubstringFrom(s, a) == Substring(s, a, Len(s))

\* s occurs in t at offset i
OccursAt(t, s, i) ==
    /\ i >= 0
    /\ i + Len(s) <= Len(t)
    /\ SubSeq(t, i + 1, i + Len(s)) = s

\* t.indexOf(s): the first offset at which s occurs, -1 when it does not occur
IndexOf(t, s) ==
    LET hits == {i \in 0..Len(t) : OccursAt(t, s, i)}
    IN  IF hits = {} THEN -1 ELSE CHOOSE i \in hits : \A j \in hits : i <= j

\* t.lastIndexOf(s): the last offset at which s occurs, -1 when it does not occur
LastIndexOf(t, s) ==
    LET hits == {i \in 0..Len(t) : OccursAt(t, s, i)}
    IN  IF hits = {} THEN -1 ELSE CHOOSE i \in hits : \A j \in hits : i >= j

\* t.includes(s)
Includes(t, s) == IndexOf(t, s) # -1

\* t.endsWith(s)
EndsWith(t, s) == OccursAt(t, s, Len(t) - Len(s))

\* t.startsWith(s)
StartsWith(t, s) == OccursAt(t, s, 0)

\* t[i]: the character at offset i, "undefined" outside the string
CharAt(t, i) == IF i >= 0 /\ i < Len(t) THEN t[i + 1] ELSE "undefined"

\* t.trimStart()
RECURSIVE TrimStart(_)
TrimStart(t) ==
    IF t # <<>> /\ Head(t) \in WhiteSpace THEN TrimStart(Tail(t)) ELSE t

\* t.trimEnd()
RECURSIVE TrimEnd(_)
TrimEnd(t) ==
    IF t # <<>> /\ t[Len(t)] \in WhiteSpace
    THEN TrimEnd(SubSeq(t, 1, Len(t) - 1))
    ELSE t

\* t.trim()
Trim(t) == TrimEnd(TrimStart(t))

\* ---------------------------------------------------------------------------
\* Shortcode markers
\* ---------------------------------------------------------------------------

\* The shortcode name of the provider under study.
ShortcodeName == <<"n">>

\* `{{< ${shortcodeName}`
StartMarker(shortcodeName) == <<"{", "{", "<", " ">> \o shortcodeName

\* '>}}'
EndMarker == <<">", "}", "}">>

\* The value standing for JavaScript's null / undefined result.
Null == [null |-> TRUE]

\* The value of an optional text that is absent.
Undefined == <<"undefined">>

\* ---------------------------------------------------------------------------
\* Parts of the extension that take no part in a behaviour stay as they are
\* after activation.
\* ---------------------------------------------------------------------------

\* No completion request has been made.
RequestIdle ==
    /\ lineText = <<>>
    /\ cursorPos = 0
    /\ provider = "none"
    /\ baseContext = Null
    /\ beforeText = <<>>
    /\ context = Null
    /\ shortcodeSpec = Null
    /\ items = <<>>
    /\ requestDocument = [brandColors |-> <<>>, listing |-> <<>>]

\* The value of a list of texts that no call has produced yet.
NotCalled == <<<<"not called">>>>

\* filterByPrefix has not been called.
FilterIdle ==
    /\ filterValues = <<>>
    /\ filterTyped = <<>>
    /\ filterResult = NotCalled

\* The value of a list of frontmatter values that no call has produced yet.
NoValuesYet == <<[key |-> "not called"]>>

\* parseFrontmatterValues has not been called.
FrontmatterIdle ==
    /\ frontmatterText = [delimiters |-> "none", lines |-> <<>>]
    /\ frontmatterKey = <<>>
    /\ frontmatterValues = NoValuesYet

\* The value of a search result while no search has returned.
Searching == [returned |-> FALSE, file |-> Null]

\* No search for a file of the workspace has been started.
FindIdle ==
    /\ finder = "none"
    /\ documentUri = <<>>
    /\ workspaceUri = <<>>
    /\ existing = {}
    /\ currentDir = <<>>
    /\ probed = <<>>
    /\ found = Searching

\* The names loadSpec is called with: three bundled specs, a name without a
\* spec file and the name of a file that is no YAML.
SpecNames == {"fa", "acr", "now", "nonexistent-shortcode", "malformed"}

\* The cache keys of the calls of loadFileData: `${source}:${dataPath}`.
FileDataKeys ==
    {"data/fontawesome-icons.json:icons", "data/fontawesome-icons.json:brands",
     "data/acronyms.json:keys", "data/nonexistent.json:items",
     "data/malformed.json:items", "data/null.json:items",
     "data/fontawesome-icons.json:nonexistent.path",
     "data/fontawesome-icons.json:version"}

\* No call of the spec loader was made: both caches are empty.
CacheIdle ==
    /\ specCache = <<>>
    /\ fileDataCache = <<>>
    /\ allocated = 0
    /\ lastCall = [function |-> "none", key |-> "", result |-> 0, read |-> FALSE,
                   held |-> 0, state |-> "none", outcome |-> "none"]
    /\ lastObject = [k \in SpecNames \cup FileDataKeys |-> 0]
    /\ since = [k \in SpecNames \cup FileDataKeys |-> "none"]

\* The value of a set of names that no call has produced yet.
NotUsedYet == {<<"not called">>}

\* getUsedAttributes has not been called.
UsedIdle ==
    /\ usedContent = <<>>
    /\ usedDeclared = <<>>
    /\ usedResult = NotUsedYet

\* No attribute names have been ranked.
RankIdle ==
    /\ rankCategories = <<>>
    /\ rankSortTexts = NotCalled

\* The value of a span context that no call has produced yet.
NoSpanYet == [pending |-> TRUE]

\* getSpanContext has not been called.
SpanIdle ==
    /\ spanLine = <<>>
    /\ spanCursor = 0
    /\ spanContext = NoSpanYet

\* The value of an answer that no call has produced yet.
NoAnswerYet == [pending |-> TRUE]

\* No document is open and nothing is cached.
DocumentIdle ==
    /\ documents = <<>>
    /\ cachedFunction = ""
    /\ versionCache = <<>>
    /\ lastAnswer = NoAnswerYet

\* No call of getBrandColors has been made.
BrandIdle ==
    /\ brandFiles = <<>>
    /\ brandColorCache = <<>>
    /\ brandRequests = <<>>

nonRequestVars ==
    <<filterVars, frontmatterVars, findVars, cacheVars,
      usedVars, rankVars, spanVars, documentVars,
      brandVars>>

NonRequestIdle ==
    /\ FilterIdle
    /\ FrontmatterIdle
    /\ FindIdle
    /\ CacheIdle
    /\ UsedIdle
    /\ RankIdle
    /\ SpanIdle
    /\ DocumentIdle
    /\ BrandIdle

nonFilterVars ==
    <<requestVars, frontmatterVars, findVars, cacheVars,
      usedVars, rankVars, spanVars, documentVars,
      brandVars>>

NonFilterIdle ==
    /\ RequestIdle
    /\ FrontmatterIdle
    /\ FindIdle
    /\ CacheIdle
    /\ UsedIdle
    /\ RankIdle
    /\ SpanIdle
    /\ DocumentIdle
    /\ BrandIdle

nonFrontmatterVars ==
    <<requestVars, filterVars, findVars, cacheVars,
      usedVars, rankVars, spanVars, documentVars,
      brandVars>>

NonFrontmatterIdle ==
    /\ RequestIdle
    /\ FilterIdle
    /\ FindIdle
    /\ CacheIdle
    /\ UsedIdle
    /\ RankIdle
    /\ SpanIdle
    /\ DocumentIdle
    /\ BrandIdle

nonFindVars ==
    <<requestVars, filterVars, frontmatterVars, cacheVars,
      usedVars, rankVars, spanVars, documentVars,
      brandVars>>

NonFindIdle ==
    /\ RequestIdle
    /\ FilterIdle
    /\ FrontmatterIdle
    /\ CacheIdle
    /\ UsedIdle
    /\ RankIdle
    /\ SpanIdle
    /\ DocumentIdle
    /\ BrandIdle

nonCacheVars ==
    <<requestVars, filterVars, frontmatterVars, findVars,
      usedVars, rankVars, spanVars, documentVars,
      brandVars>>

NonCacheIdle ==
    /\ RequestIdle
    /\ FilterIdle
    /\ FrontmatterIdle
    /\ FindIdle
    /\ UsedIdle
    /\ RankIdle
    /\ SpanIdle
    /\ DocumentIdle
    /\ BrandIdle

nonUsedVars ==
    <<requestVars, filterVars, frontmatterVars, findVars,
      cacheVars, rankVars, spanVars, documentVars,
      brandVars>>

NonUsedIdle ==
    /\ RequestIdle
    /\ FilterIdle
    /\ FrontmatterIdle
    /\ FindIdle
    /\ CacheIdle
    /\ RankIdle
    /\ SpanIdle
    /\ DocumentIdle
    /\ BrandIdle

nonRankVars ==
    <<requestVars, filterVars, frontmatterVars, findVars,
      cacheVars, usedVars, spanVars, documentVars,
      brandVars>>

NonRankIdle ==
    /\ RequestIdle
    /\ FilterIdle
    /\ FrontmatterIdle
    /\ FindIdle
    /\ CacheIdle
    /\ UsedIdle
    /\ SpanIdle
    /\ DocumentIdle
    /\ BrandIdle

nonSpanVars ==
    <<requestVars, filterVars, frontmatterVars, findVars,
      cacheVars, usedVars, rankVars, documentVars,
      brandVars>>

NonSpanIdle ==
    /\ RequestIdle
    /\ FilterIdle
    /\ FrontmatterIdle
    /\ FindIdle
    /\ CacheIdle
    /\ UsedIdle
    /\ RankIdle
    /\ DocumentIdle
    /\ BrandIdle

nonDocumentVars ==
    <<requestVars, filterVars, frontmatterVars, findVars,
      cacheVars, usedVars, rankVars, spanVars,
      brandVars>>

NonDocumentIdle ==
    /\ RequestIdle
    /\ FilterIdle
    /\ FrontmatterIdle
    /\ FindIdle
    /\ CacheIdle
    /\ UsedIdle
    /\ RankIdle
    /\ SpanIdle
    /\ BrandIdle

nonBrandVars ==
    <<requestVars, filterVars, frontmatterVars, findVars,
      cacheVars, usedVars, rankVars, spanVars,
      documentVars>>

NonBrandIdle ==
    /\ RequestIdle
    /\ FilterIdle
    /\ FrontmatterIdle
    /\ FindIdle
    /\ CacheIdle
    /\ UsedIdle
    /\ RankIdle
    /\ SpanIdle
    /\ DocumentIdle

\* ---------------------------------------------------------------------------
\* getShortcodeContext
\* ---------------------------------------------------------------------------

\* A plausible slip: the spaces are skipped without regard to the cursor.
ContentStartPastCursor(line, markerEnd, cursor) ==
    LET spaces == {k \in 0..Len(line) :
                     \A j \in markerEnd..(markerEnd + k - 1) : CharAt(line, j) = " "}
        skipped == CHOOSE k \in spaces : \A j \in spaces : k >= j
    IN  markerEnd + skipped

\* let contentStart = markerEnd;
\* while (contentStart < cursorPos && lineText[contentStart] === ' ') contentStart++;
\* if (contentStart > cursorPos) contentStart = cursorPos;
ContentStart(line, markerEnd, cursor) ==
    LET spaces == {k \in 0..Len(line) :
                     \A j \in markerEnd..(markerEnd + k - 1) :
                         j < cursor /\ CharAt(line, j) = " "}
        skipped == CHOOSE k \in spaces : \A j \in spaces : k >= j
    IN  Min(markerEnd + skipped, cursor)

\* A plausible slip: the check for a closing marker before the cursor is left out.
ClosedBeforeCursorNever(afterShortcodeStart) == FALSE

\* afterShortcodeStart.includes('>}}')
ClosedBeforeCursor(afterShortcodeStart) == Includes(afterShortcodeStart, EndMarker)

\* A plausible slip: the content is not trimmed.
FullContentUntrimmed(line, markerEnd, shortcodeEnd) ==
    Substring(line, markerEnd, shortcodeEnd)

\* lineText.substring(markerEnd, shortcodeEnd).trim()
FullContent(line, markerEnd, shortcodeEnd) ==
    Trim(Substring(line, markerEnd, shortcodeEnd))

getShortcodeContext(line, cursor, shortcodeName) ==
    LET marker == StartMarker(shortcodeName)
        beforeCursor == Substring(line, 0, cursor)
        shortcodeStart == LastIndexOf(beforeCursor, marker)
        afterShortcodeStart == SubstringFrom(beforeCursor, shortcodeStart)
        afterCursor == SubstringFrom(line, cursor)
        shortcodeEndRelative == IndexOf(afterCursor, EndMarker)
        textBeforeEnd == Substring(afterCursor, 0, shortcodeEndRelative)
        hasSpaceBeforeEnd ==
            shortcodeEndRelative > 0 /\ EndsWith(textBeforeEnd, <<" ">>)
        markerEnd == shortcodeStart + Len(marker)
        shortcodeEnd == cursor + shortcodeEndRelative
        fullContent == FullContent(line, markerEnd, shortcodeEnd)
        contentStart == ContentStart(line, markerEnd, cursor)
        contentBeforeCursor == Substring(line, markerEnd, cursor)
        hasSpaceAfterName == CharAt(line, markerEnd) = " "
    IN  IF shortcodeStart = -1 THEN Null
        ELSE IF ClosedBeforeCursor(afterShortcodeStart) THEN Null
        ELSE IF shortcodeEndRelative = -1 THEN Null
        ELSE [fullContent |-> fullContent,
              contentStart |-> contentStart,
              completionType |-> "attribute-name",
              typedText |-> Trim(contentBeforeCursor),
              tokenStart |-> contentStart,
              attributeName |-> Undefined,
              hasSpaceBeforeEnd |-> hasSpaceBeforeEnd,
              needsLeadingSpace |->
                  ~hasSpaceAfterName /\ Trim(contentBeforeCursor) = <<>>]

\* ---------------------------------------------------------------------------
\* parseAttributeValueContext
\* ---------------------------------------------------------------------------

\* The offset at which the run of word characters starting at offset i ends.
WordRunEnd(s, i) ==
    CHOOSE j \in i..Len(s) :
        /\ CharAt(s, j) \notin WordChars
        /\ \A k \in i..(j - 1) : CharAt(s, k) \in WordChars

\* /(\w+)=([^\s]*)$/ can match starting at offset i.
AttrValueMatchAt(s, i) ==
    /\ CharAt(s, i) \in WordChars
    /\ CharAt(s, WordRunEnd(s, i)) = "="
    /\ \A k \in (WordRunEnd(s, i) + 1)..(Len(s) - 1) : CharAt(s, k) \notin WhiteSpace

\* contentBeforeCursor.match(/(\w+)=([^\s]*)$/): the leftmost match, as
\* [name, value], or Null.
AttrValueMatch(s) ==
    LET starts == {i \in 0..(Len(s) - 1) : AttrValueMatchAt(s, i)}
        first == CHOOSE i \in starts : \A j \in starts : i <= j
        eq == WordRunEnd(s, first)
    IN  IF starts = {} THEN Null
        ELSE [name |-> Substring(s, first, eq), value |-> SubstringFrom(s, eq + 1)]

\* A plausible slip: the leading quote is kept.
KeepLeadingQuote(v) == v

\* value.replace(/^["']/, '')
StripLeadingQuote(v) ==
    IF v # <<>> /\ Head(v) \in QuoteChars THEN Tail(v) ELSE v

parseAttributeValueContext(contentBeforeCursor, cursor) ==
    LET attrValueMatch == AttrValueMatch(contentBeforeCursor)
        typedValue == StripLeadingQuote(attrValueMatch.value)
    IN  IF attrValueMatch = Null THEN Null
        ELSE [attributeName |-> attrValueMatch.name,
              typedValue |-> typedValue,
              tokenStart |-> cursor - Len(typedValue)]

\* ---------------------------------------------------------------------------
\* Primary-value predicates of the providers
\* ---------------------------------------------------------------------------

\* content.split(/\s+/).filter(p => p): the maximal runs of non-white-space.
RECURSIVE SplitWhiteSpace(_)
SplitWhiteSpace(s) ==
    LET t == TrimStart(s)
        ends == {j \in 1..Len(t) : CharAt(t, j) \in WhiteSpace \/ j = Len(t)}
        stop == CHOOSE j \in ends : \A k \in ends : j <= k
    IN  IF t = <<>> THEN <<>>
        ELSE <<Substring(t, 0, stop)>> \o SplitWhiteSpace(SubstringFrom(t, stop))

\* .filter(p => p && !p.includes('='))
PartsWithoutEquals(content) ==
    SelectSeq(SplitWhiteSpace(content), LAMBDA p : ~Includes(p, <<"=">>))

\* The attribute names the modelled shortcode spec declares (spec.attributes).
AttributeNames == {<<"a">>}

\* SpecCompletionProvider.hasPrimaryValue, for a spec that declares arguments
hasPrimaryValue(content) ==
    LET parts == PartsWithoutEquals(content)
    IN  /\ content # <<>>
        /\ parts # <<>>
        /\ parts[1] \notin AttributeNames
        /\ Len(parts[1]) > 0

\* 'brands'
Brands == <<"b", "r", "a", "n", "d", "s">>

\* /^[a-z][a-z0-9-]*$/i within the alphabet of the model
LooksLikeIcon(p) ==
    /\ p # <<>>
    /\ p[1] \in WordChars
    /\ \A k \in 2..Len(p) : p[k] \in WordChars \cup {"-"}

\* hasIconSpecified of the FontAwesome provider (ATTRIBUTE_NAMES = AttributeNames;
\* every entry of FONTAWESOME_ICONS that is a single part is icon-shaped)
hasIconSpecified(content) ==
    LET parts == PartsWithoutEquals(content)
    IN  IF content = <<>> THEN FALSE
        ELSE IF parts # <<>> /\ parts[1] = Brands THEN Len(parts) >= 2
        ELSE IF Len(parts) >= 1
        THEN IF parts[1] \in AttributeNames THEN FALSE ELSE LooksLikeIcon(parts[1])
        ELSE FALSE

\* hasPrimaryValue(trimmedContent) in analyzeShortcodeContext: the call of the
\* predicate the provider passed, which is named by a string here.
CallPredicate(predicate, content) ==
    IF predicate = "hasIconSpecified"
    THEN hasIconSpecified(content)
    ELSE hasPrimaryValue(content)

\* ---------------------------------------------------------------------------
\* analyzeShortcodeContext, analyzeAttributeOnlyContext
\* ---------------------------------------------------------------------------

\* { ...context, completionType: 'attribute-value', ... }
AttributeValueResult(ctx, attrValueCtx) ==
    [ctx EXCEPT !.completionType = "attribute-value",
                !.typedText = attrValueCtx.typedValue,
                !.tokenStart = attrValueCtx.tokenStart,
                !.attributeName = attrValueCtx.attributeName,
                !.needsLeadingSpace = FALSE]

\* The typed attribute name: the text after the last ' ', or the trimmed
\* content when it holds no ' '.
LastToken(contentBeforeCursor) ==
    LET lastSpaceIndex == LastIndexOf(contentBeforeCursor, <<" ">>)
    IN  IF lastSpaceIndex >= 0
        THEN SubstringFrom(contentBeforeCursor, lastSpaceIndex + 1)
        ELSE Trim(contentBeforeCursor)

\* needsLeadingSpace of the primary-value branch of analyzeShortcodeContext
PrimaryNeedsLeadingSpace(contentBeforeCursor, hasSpaceAfterName) ==
    ~hasSpaceAfterName

analyzeShortcodeContext(ctx, contentBeforeCursor, cursor, hasSpaceAfterName, predicate, primaryCompletionType) ==
    LET attrValueCtx == parseAttributeValueContext(contentBeforeCursor, cursor)
        trimmedContent == Trim(contentBeforeCursor)
        typedText == LastToken(contentBeforeCursor)
    IN  IF attrValueCtx # Null THEN AttributeValueResult(ctx, attrValueCtx)
        ELSE IF CallPredicate(predicate, trimmedContent)
        THEN [ctx EXCEPT !.completionType = "attribute-name",
                         !.typedText = typedText,
                         !.tokenStart = cursor - Len(typedText),
                         !.needsLeadingSpace = FALSE]
        ELSE [ctx EXCEPT !.completionType = primaryCompletionType,
                         !.typedText = trimmedContent,
                         !.tokenStart = ctx.contentStart,
                         !.needsLeadingSpace =
                             PrimaryNeedsLeadingSpace(contentBeforeCursor,
                                                      hasSpaceAfterName)]

analyzeAttributeOnlyContext(ctx, contentBeforeCursor, cursor, hasSpaceAfterName) ==
    LET attrValueCtx == parseAttributeValueContext(contentBeforeCursor, cursor)
        typedText == LastToken(contentBeforeCursor)
    IN  IF attrValueCtx # Null THEN AttributeValueResult(ctx, attrValueCtx)
        ELSE [ctx EXCEPT !.completionType = "attribute-name",
                         !.typedText = typedText,
                         !.tokenStart = cursor - Len(typedText),
                         !.needsLeadingSpace =
                             ~hasSpaceAfterName /\ Trim(contentBeforeCursor) = <<>>]

\* ---------------------------------------------------------------------------
\* The providers, up to the classification they hand to the synthesizer
\* ---------------------------------------------------------------------------

\* SpecCompletionProvider.provideCompletionItems: the marker is searched in the
\* text before the cursor.
SpecMarkerEnd(line, cursor, shortcodeName) ==
    LastIndexOf(Substring(line, 0, cursor), StartMarker(shortcodeName))
        + Len(StartMarker(shortcodeName))

\* FontAwesomeCompletionProvider.provideCompletionItems: the marker is searched
\* in the whole line.
FaMarkerEnd(line, cursor, shortcodeName) ==
    LastIndexOf(line, StartMarker(shortcodeName)) + Len(StartMarker(shortcodeName))

SpecClassify(line, cursor, hasArguments) ==
    LET base == getShortcodeContext(line, cursor, ShortcodeName)
        markerEnd == SpecMarkerEnd(line, cursor, ShortcodeName)
        contentBeforeCursor == Substring(line, markerEnd, cursor)
        hasSpaceAfterName == CharAt(line, markerEnd) = " "
    IN  [base |-> base,
         before |-> IF base = Null THEN <<>> ELSE contentBeforeCursor,
         context |->
            IF base = Null THEN Null
            ELSE IF hasArguments
            THEN analyzeShortcodeContext(base, contentBeforeCursor, cursor,
                                         hasSpaceAfterName, "hasPrimaryValue",
                                         "icon")
            ELSE analyzeAttributeOnlyContext(base, contentBeforeCursor, cursor,
                                             hasSpaceAfterName)]

FaClassify(line, cursor) ==
    LET base == getShortcodeContext(line, cursor, ShortcodeName)
        markerEnd == FaMarkerEnd(line, cursor, ShortcodeName)
        contentBeforeCursor == Substring(line, markerEnd, cursor)
        hasSpaceAfterFa == CharAt(line, markerEnd) = " "
    IN  [base |-> base,
         before |-> IF base = Null THEN <<>> ELSE contentBeforeCursor,
         context |->
            IF base = Null THEN Null
            ELSE analyzeShortcodeContext(base, contentBeforeCursor, cursor,
                                         hasSpaceAfterFa, "hasIconSpecified",
                                         "icon")]

\* ---------------------------------------------------------------------------
\* Shortcode specs and the collaborators of the synthesizer
\* ---------------------------------------------------------------------------

\* c.toLowerCase() for one character
LowerChar(c) ==
    CASE c = "A" -> "a"
      [] c = "B" -> "b"
      [] c = "N" -> "n"
      [] OTHER -> c

\* s.toLowerCase()
ToLowerCase(s) == [i \in 1..Len(s) |-> LowerChar(s[i])]

\* A Completion descriptor (spec-types.ts); fields a type does not use are empty.
Completion(type, values, default, extensions) ==
    [type |-> type, values |-> values, default |-> default, extensions |-> extensions]

\* The value sources a spec can give to its argument and to its attribute.
Completions ==
    {Completion("enum", <<<<"n", "b">>, <<"n", "a">>, <<"a", "b">>, <<"a">>>>,
                <<"n", "a">>, <<>>),
     Completion("enum", <<<<"b">>, <<"a">>>>, Undefined, <<>>),
     Completion("boolean", <<>>, <<"t", "r", "u", "e">>, <<>>),
     Completion("color", <<>>, Undefined, <<>>),
     Completion("file", <<>>, Undefined, <<<<".", "c">>>>),
     Completion("file", <<>>, Undefined, <<>>),
     Completion("file-data", <<>>, Undefined, <<>>),
     Completion("frontmatter", <<>>, Undefined, <<>>),
     Completion("workspace-file", <<>>, Undefined, <<>>),
     Completion("freeform", <<>>, Undefined, <<>>),
     Completion("none", <<>>, Undefined, <<>>)}

\* A ShortcodeSpec: an optional positional argument and the attribute "a",
\* both completed from the same value source.
ShortcodeSpecOf(hasArguments, completion) ==
    [shortcode |-> ShortcodeName,
     arguments |-> IF hasArguments
                   THEN <<[name |-> <<"n">>, completion |-> completion]>>
                   ELSE <<>>,
     attributes |-> <<[name |-> <<"a">>, category |-> Undefined, quoted |-> FALSE,
                       completion |-> completion]>>]

\* CSS_COLOR_NAMES
CSS_COLOR_NAMES ==
    <<<<"r", "e", "d">>, <<"b", "l", "u", "e">>, <<"g", "r", "e", "e", "n">>,
      <<"y", "e", "l", "l", "o", "w">>, <<"o", "r", "a", "n", "g", "e">>,
      <<"p", "u", "r", "p", "l", "e">>, <<"p", "i", "n", "k">>,
      <<"b", "l", "a", "c", "k">>, <<"w", "h", "i", "t", "e">>,
      <<"g", "r", "a", "y">>, <<"c", "y", "a", "n">>,
      <<"m", "a", "g", "e", "n", "t", "a">>>>

\* The palettes getBrandColors can find for a document: none, and entries
\* whose names and values differ in case, in length and in their first letter.
Palettes ==
    {<<>>,
     <<[name |-> <<"n", "a">>, value |-> <<"#", "a">>]>>,
     <<[name |-> <<"n", "a">>, value |-> <<"#", "a">>],
       [name |-> <<"A", "b">>, value |-> <<"b", "l", "u", "e">>]>>,
     <<[name |-> <<"b">>, value |-> <<"n", "b">>],
       [name |-> <<"n", "b">>, value |-> <<"#", "b">>]>>}

\* The listings of the document's directory: [name, FileType.Directory or not].
Listings ==
    {<<[name |-> <<".", "g">>, isDirectory |-> TRUE],
       [name |-> <<"n", ".", "c">>, isDirectory |-> FALSE],
       [name |-> <<"a">>, isDirectory |-> TRUE],
       [name |-> <<"N", ".", "b">>, isDirectory |-> FALSE]>>,
     <<[name |-> <<"n">>, isDirectory |-> FALSE],
       [name |-> <<".", "c">>, isDirectory |-> FALSE],
       [name |-> <<"b", ".", "C">>, isDirectory |-> FALSE],
       [name |-> <<"b">>, isDirectory |-> TRUE]>>,
     <<>>}

\* The listing of the sub-directory "a" of the document's directory.
SubListing ==
    <<[name |-> <<"b", ".", "C">>, isDirectory |-> FALSE],
      [name |-> <<".", "a">>, isDirectory |-> FALSE],
      [name |-> <<"b">>, isDirectory |-> TRUE],
      [name |-> <<"a", ".", "b">>, isDirectory |-> FALSE]>>

\* What a request reads of the document and of its directory.
Document(brandColors, listing) == [brandColors |-> brandColors, listing |-> listing]

\* The documents a request for the value source can be made in.
Documents(completion) ==
    IF completion.type = "color"
    THEN {Document(brandColors, <<>>) : brandColors \in Palettes}
    ELSE IF completion.type = "file"
    THEN {Document(<<>>, listing) : listing \in Listings}
    ELSE {Document(<<>>, <<>>)}

\* await getBrandColors(document)
getBrandColors(document) == document.brandColors

\* await vscode.workspace.fs.readDirectory(Uri.file(path.resolve(documentDir,
\* relativePath))): the entries, or the failure when there is no such directory.
ReadDirectory(document, relativePath) ==
    CASE relativePath = <<>> -> [failed |-> FALSE, entries |-> document.listing]
      [] /\ relativePath = <<"a">>
         /\ \E i \in 1..Len(document.listing) :
                document.listing[i] = [name |-> <<"a">>, isDirectory |-> TRUE] ->
            [failed |-> FALSE, entries |-> SubListing]
      [] OTHER -> [failed |-> TRUE, entries |-> <<>>]

\* What loadFileData(source, path) returns for the file-data source of the spec.
FileDataValues == <<<<"n", "b">>, <<"A">>>>

\* What parseFrontmatterValues(text, key, valuePath) returns for the document.
FrontmatterValues ==
    <<[key |-> <<"A", "n">>, detail |-> <<"b">>], [key |-> <<"n">>, detail |-> <<>>]>>

\* What parseWorkspaceFileValues returns for the workspace file found.
WorkspaceFileValues == <<<<"n", "a">>, <<"b">>>>

\* ---------------------------------------------------------------------------
\* SpecCompletionProvider: completion items
\* ---------------------------------------------------------------------------

\* createReplaceRange(position, tokenStart): [start, end) on the cursor's line
createReplaceRange(cursor, tokenStart) == <<tokenStart, cursor>>

\* A CompletionItem.  value is what the candidate stands for (the text between
\* the separators of insertText); command tells that the item re-triggers the
\* suggestions; sortText is Undefined when the item sets none.
CompletionItem(label, value, range, sortText, insertText, isDirectory, command) ==
    [label |-> label, value |-> value, range |-> range, sortText |-> sortText,
     insertText |-> insertText, isDirectory |-> isDirectory, command |-> command]

\* typedText && !value.toLowerCase().startsWith(typedText)
FilteredOut(value, typedText) ==
    typedText # <<>> /\ ~StartsWith(ToLowerCase(value), typedText)

\* A plausible slip: the sort key of an enum value is its declaration index.
EnumSortTextByIndex(completion, value) ==
    LET index == CHOOSE i \in 1..Len(completion.values) : completion.values[i] = value
    IN  IF value = completion.default THEN <<"0">>
        ELSE <<"1">> \o <<CASE index = 1 -> "0" [] index = 2 -> "1"
                            [] index = 3 -> "2" [] OTHER -> "3">>

\* item.sortText of createEnumCompletions
EnumSortText(completion, value) ==
    IF value = completion.default THEN <<"0">> \o value ELSE <<"1">> \o value

createEnumCompletions(completion, typedText, replaceRange, leadingSpace, trailingSpace) ==
    LET values == SelectSeq(completion.values,
                            LAMBDA value : ~FilteredOut(value, typedText))
    IN  [i \in 1..Len(values) |->
            CompletionItem(values[i], values[i], replaceRange,
                           EnumSortText(completion, values[i]),
                           leadingSpace \o values[i] \o trailingSpace, FALSE, FALSE)]

\* A plausible slip: the sort key of a boolean is the value alone.
BooleanSortTextPlain(defaultStr, value) == value

\* item.sortText of createBooleanCompletions
BooleanSortText(defaultStr, value) ==
    IF value = defaultStr THEN <<"0">> \o value ELSE <<"1">> \o value

createBooleanCompletions(defaultStr, typedText, replaceRange, leadingSpace, trailingSpace) ==
    LET values == SelectSeq(<<<<"t", "r", "u", "e">>, <<"f", "a", "l", "s", "e">>>>,
                     LAMBDA value : ~(typedText # <<>> /\ ~StartsWith(value, typedText)))
    IN  [i \in 1..Len(values) |->
            CompletionItem(values[i], values[i], replaceRange,
                           BooleanSortText(defaultStr, values[i]),
                           leadingSpace \o values[i] \o trailingSpace, FALSE, FALSE)]

\* A plausible slip: the name of the brand colour is inserted.
BrandColorInsertsName(brandColor) == brandColor.name

\* The text a brand colour item inserts between the separators.
BrandColorInserted(brandColor) == brandColor.value

createColorCompletions(typedText, replaceRange, leadingSpace, trailingSpace, document) ==
    LET brandColors == SelectSeq(getBrandColors(document),
                           LAMBDA brandColor : ~FilteredOut(brandColor.name, typedText))
        colors == SelectSeq(CSS_COLOR_NAMES,
                            LAMBDA color : ~FilteredOut(color, typedText))
    IN  [i \in 1..Len(brandColors) |->
            CompletionItem(brandColors[i].name, brandColors[i].value, replaceRange,
                           <<"0">> \o brandColors[i].name,
                           leadingSpace \o BrandColorInserted(brandColors[i])
                               \o trailingSpace,
                           FALSE, FALSE)]
        \o [i \in 1..Len(colors) |->
               CompletionItem(colors[i], colors[i], replaceRange, <<"1">> \o colors[i],
                              leadingSpace \o colors[i] \o trailingSpace, FALSE, FALSE)]

\* path.extname(name): from the last '.', unless there is none or it is the
\* first character of the name.
ExtName(name) ==
    LET dot == LastIndexOf(name, <<".">>)
    IN  IF dot <= 0 THEN <<>> ELSE SubstringFrom(name, dot)

\* A plausible slip: the allow-list is not consulted.
ExtensionNotChecked(name, extensions) == TRUE

\* The extension allow-list lets the file through.
ExtensionAllowed(name, extensions) ==
    \/ Len(extensions) = 0
    \/ \E k \in 1..Len(extensions) :
           ToLowerCase(extensions[k]) = ToLowerCase(ExtName(name))

\* A plausible slip: the trailing space is added whatever is before the
\* closing marker.
TrailingSpaceAlways(ctx) == <<" ">>

\* context.hasSpaceBeforeEnd ? '' : ' '
TrailingSpace(ctx) == IF ctx.hasSpaceBeforeEnd THEN <<>> ELSE <<" ">>

\* context.needsLeadingSpace ? ' ' : ''
LeadingSpace(ctx) == IF ctx.needsLeadingSpace THEN <<" ">> ELSE <<>>

\* A plausible slip: the typed directory is not kept in front of the name.
FilePrefixDropped(typedText) == <<>>

\* prefix in createFileCompletions: the typed text through its last '/'
FilePrefix(typedText) ==
    IF Includes(typedText, <<"/">>)
    THEN Substring(typedText, 0, LastIndexOf(typedText, <<"/">>) + 1)
    ELSE <<>>

createFileCompletions(ctx, cursor, document, extensions) ==
    LET typedText == ctx.typedText
        replaceRange == createReplaceRange(cursor, ctx.tokenStart)
        hasSlash == Includes(typedText, <<"/">>)
        lastSlash == LastIndexOf(typedText, <<"/">>)
        prefix == FilePrefix(typedText)
        relativePath == IF hasSlash THEN Substring(typedText, 0, lastSlash) ELSE <<>>
        read == ReadDirectory(document, relativePath)
        entries == read.entries
        filterText == IF hasSlash
                      THEN ToLowerCase(SubstringFrom(typedText, lastSlash + 1))
                      ELSE ToLowerCase(typedText)
        kept == SelectSeq(entries,
                    LAMBDA entry :
                        /\ ~StartsWith(entry.name, <<".">>)
                        /\ ~FilteredOut(entry.name, filterText)
                        /\ entry.isDirectory \/ ExtensionAllowed(entry.name, extensions))
    IN  IF read.failed THEN <<>>
        ELSE [i \in 1..Len(kept) |->
                CompletionItem(kept[i].name, prefix \o kept[i].name, replaceRange,
                    (IF kept[i].isDirectory THEN <<"0">> ELSE <<"1">>) \o kept[i].name,
                    IF kept[i].isDirectory
                    THEN LeadingSpace(ctx) \o prefix \o kept[i].name \o <<"/">>
                    ELSE LeadingSpace(ctx) \o prefix \o kept[i].name
                             \o TrailingSpace(ctx),
                    kept[i].isDirectory, kept[i].isDirectory)]

createFileDataCompletions(typedText, replaceRange, leadingSpace, trailingSpace) ==
    LET values == SelectSeq(FileDataValues,
                            LAMBDA value : ~FilteredOut(value, typedText))
    IN  [i \in 1..Len(values) |->
            CompletionItem(values[i], values[i], replaceRange, Undefined,
                           leadingSpace \o values[i] \o trailingSpace,
                           FALSE, FALSE)]

createFrontmatterCompletions(typedText, replaceRange, leadingSpace, trailingSpace) ==
    LET values == SelectSeq(FrontmatterValues,
                            LAMBDA value : ~FilteredOut(value.key, typedText))
    IN  [i \in 1..Len(values) |->
            CompletionItem(values[i].key, values[i].key, replaceRange, Undefined,
                           leadingSpace \o values[i].key \o trailingSpace,
                           FALSE, FALSE)]

createWorkspaceFileCompletions(typedText, replaceRange, leadingSpace, trailingSpace) ==
    LET values == SelectSeq(WorkspaceFileValues,
                            LAMBDA value : ~FilteredOut(value, typedText))
    IN  [i \in 1..Len(values) |->
            CompletionItem(values[i], values[i], replaceRange, Undefined,
                           leadingSpace \o values[i] \o trailingSpace,
                           FALSE, FALSE)]

\* A plausible slip: the range starts where the content starts.
ReplaceRangeFromContentStart(ctx, cursor) ==
    createReplaceRange(cursor, ctx.contentStart)

\* const replaceRange = createReplaceRange(position, context.tokenStart)
ReplaceRangeOf(ctx, cursor) == createReplaceRange(cursor, ctx.tokenStart)

getCompletionsForType(completion, ctx, cursor, document) ==
    LET replaceRange == ReplaceRangeOf(ctx, cursor)
        typedText == ToLowerCase(ctx.typedText)
        leadingSpace == LeadingSpace(ctx)
        trailingSpace == TrailingSpace(ctx)
    IN  CASE completion.type = "enum" ->
                createEnumCompletions(completion, typedText, replaceRange,
                                      leadingSpace, trailingSpace)
          [] completion.type = "boolean" ->
                createBooleanCompletions(completion.default, typedText, replaceRange,
                                         leadingSpace, trailingSpace)
          [] completion.type = "color" ->
                createColorCompletions(typedText, replaceRange, leadingSpace,
                                       trailingSpace, document)
          [] completion.type = "file" ->
                createFileCompletions(ctx, cursor, document, completion.extensions)
          [] completion.type = "file-data" ->
                createFileDataCompletions(typedText, replaceRange, leadingSpace,
                                          trailingSpace)
          [] completion.type = "frontmatter" ->
                createFrontmatterCompletions(typedText, replaceRange, leadingSpace,
                                             trailingSpace)
          [] completion.type = "workspace-file" ->
                createWorkspaceFileCompletions(typedText, replaceRange, leadingSpace,
                                               trailingSpace)
          [] OTHER -> <<>>

\* The snippet an attribute-name item inserts.
AttributeInsertText(attr, ctx) ==
    IF attr.completion.type \in {"enum", "boolean", "color"}
    THEN LeadingSpace(ctx) \o attr.name \o <<"=", "$", "1">>
    ELSE IF attr.quoted
    THEN LeadingSpace(ctx) \o attr.name \o <<"=", "\"", "$", "{", "1", ":", "}", "\"">>
             \o TrailingSpace(ctx)
    ELSE LeadingSpace(ctx) \o attr.name \o <<"=", "$", "{", "1", ":", "}">>
             \o TrailingSpace(ctx)

\* `${catIndex.toString().padStart(2, '0')}${i.toString().padStart(3, '0')}` for
\* the attributes of the modelled specs (one category: catIndex is 0 || 99)
AttributeSortText(i) ==
    <<"9", "9", "0", "0", CASE i = 0 -> "0" [] i = 1 -> "1" [] OTHER -> "2">>

getAttributeNameCompletions(spec, ctx, cursor) ==
    LET typedText == ToLowerCase(ctx.typedText)
        replaceRange == ReplaceRangeOf(ctx, cursor)
        indexes == SelectSeq([i \in 1..Len(spec.attributes) |-> i],
                       LAMBDA i :
                           /\ ~Includes(ctx.fullContent,
                                        spec.attributes[i].name \o <<"=">>)
                           /\ ~FilteredOut(spec.attributes[i].name, typedText))
    IN  [k \in 1..Len(indexes) |->
            LET attr == spec.attributes[indexes[k]]
            IN  CompletionItem(attr.name, attr.name, replaceRange,
                               AttributeSortText(indexes[k] - 1),
                               AttributeInsertText(attr, ctx), FALSE,
                               attr.completion.type \in {"enum", "boolean", "color"})]

getAttributeValueCompletions(spec, ctx, cursor, document) ==
    LET known == {i \in 1..Len(spec.attributes) :
                     spec.attributes[i].name = ctx.attributeName}
    IN  IF known = {} THEN <<>>
        ELSE getCompletionsForType(
                 spec.attributes[CHOOSE i \in known : TRUE].completion, ctx, cursor,
                 document)

\* SpecCompletionProvider.provideCompletionItems: the items for a classified
\* context (undefined, modelled as no items, when there is no context).
SpecCompletionItems(spec, ctx, cursor, document) ==
    IF ctx = Null THEN <<>>
    ELSE IF ctx.completionType = "icon"
    THEN getCompletionsForType(spec.arguments[1].completion, ctx, cursor, document)
    ELSE IF ctx.completionType = "attribute-name"
    THEN getAttributeNameCompletions(spec, ctx, cursor)
    ELSE IF ctx.completionType = "attribute-value"
    THEN getAttributeValueCompletions(spec, ctx, cursor, document)
    ELSE <<>>

\* ---------------------------------------------------------------------------
\* Lines
\* ---------------------------------------------------------------------------

\* A line is a concatenation of pieces: a start marker, a closing marker, or a
\* single character (space, tab, word characters, '=', a quote).
ContentPieces == {<<" ">>, <<"\t">>, <<"n">>, <<"a">>, <<"=">>, <<"\"">>}

Pieces == {StartMarker(ShortcodeName), EndMarker} \cup ContentPieces

RECURSIVE Concatenations(_, _)
Concatenations(pieces, k) ==
    IF k = 0 THEN {<<>>}
    ELSE LET shorter == Concatenations(pieces, k - 1)
         IN  shorter \cup {l \o p : l \in shorter, p \in pieces}

\* One shortcode instance around at most k content characters.
Framed(k) ==
    {StartMarker(ShortcodeName) \o body \o EndMarker :
        body \in Concatenations(ContentPieces, k)}

\* The tokens of a well-formed shortcode: a primary value, an attribute name,
\* and an attribute with an empty, a bare or a quoted value.
Tokens ==
    {<<"n">>, <<"a">>, <<"a", "=">>, <<"a", "=", "n">>,
     <<"a", "=", "\"">>, <<"a", "=", "\"", "n">>}

\* At most k tokens, separated by one space.
RECURSIVE TokenBodies(_)
TokenBodies(k) ==
    IF k = 0 THEN {<<>>}
    ELSE LET shorter == TokenBodies(k - 1)
         IN  shorter \cup {(IF b = <<>> THEN b ELSE b \o <<" ">>) \o t :
                              b \in shorter, t \in Tokens}

\* One instance around well-formed content, with or without a space after
\* the start marker and before the closing marker.
WellFormed(k) ==
    {StartMarker(ShortcodeName) \o pre \o body \o post \o EndMarker :
        pre \in {<<>>, <<" ">>}, body \in TokenBodies(k), post \in {<<>>, <<" ">>}}

\* What separates the two instances of a two-instance line.
Separators == {<<>>, <<" ">>}

\* Two instances on a line, in either order: one around at most k characters,
\* the other around at most one character.
TwoInstances(k) ==
    {first \o sep \o second :
        first \in Framed(k), sep \in Separators, second \in Framed(1)}
    \cup {first \o sep \o second :
        first \in Framed(1), sep \in Separators, second \in Framed(k)}

\* Any arrangement of at most MaxPieces pieces; one instance around at most
\* MaxBody characters; one instance around at most MaxTokens tokens; two
\* instances, one of them around at most MaxPairBody characters.
Lines ==
    Concatenations(Pieces, MaxPieces)
        \cup Framed(MaxBody)
        \cup WellFormed(MaxTokens)
        \cup TwoInstances(MaxPairBody)

\* ---------------------------------------------------------------------------
\* Specification
\* ---------------------------------------------------------------------------

Init ==
    /\ lineText \in Lines
    /\ cursorPos = 0
    /\ provider = "none"
    /\ baseContext = Null
    /\ beforeText = <<>>
    /\ context = Null
    /\ shortcodeSpec = Null
    /\ items = <<>>
    /\ requestDocument = [brandColors |-> <<>>, listing |-> <<>>]
    /\ NonRequestIdle

\* A bare getShortcodeContext call at some cursor offset of the line.
Locate ==
    /\ provider = "none"
    /\ \E c \in 0..Len(lineText) :
        /\ cursorPos' = c
        /\ provider' = "locate"
        /\ baseContext' = getShortcodeContext(lineText, c, ShortcodeName)
        /\ UNCHANGED <<lineText, beforeText, context, shortcodeSpec, items, requestDocument>>
        /\ UNCHANGED nonRequestVars

\* SpecCompletionProvider of a spec that declares a positional argument.
SpecWithArguments ==
    /\ provider = "none"
    /\ \E c \in 0..Len(lineText) :
        \E r \in {SpecClassify(lineText, c, TRUE)} :
            /\ cursorPos' = c
            /\ provider' = "spec-arguments"
            /\ baseContext' = r.base
            /\ beforeText' = r.before
            /\ context' = r.context
            /\ UNCHANGED <<lineText, shortcodeSpec, items, requestDocument>>
            /\ UNCHANGED nonRequestVars

\* SpecCompletionProvider of a spec that declares attributes only.
SpecAttributeOnly ==
    /\ provider = "none"
    /\ \E c \in 0..Len(lineText) :
        \E r \in {SpecClassify(lineText, c, FALSE)} :
            /\ cursorPos' = c
            /\ provider' = "spec-attributes"
            /\ baseContext' = r.base
            /\ beforeText' = r.before
            /\ context' = r.context
            /\ UNCHANGED <<lineText, shortcodeSpec, items, requestDocument>>
            /\ UNCHANGED nonRequestVars

\* FontAwesomeCompletionProvider.
FontAwesome ==
    /\ provider = "none"
    /\ \E c \in 0..Len(lineText) :
        \E r \in {FaClassify(lineText, c)} :
            /\ cursorPos' = c
            /\ provider' = "fontawesome"
            /\ baseContext' = r.base
            /\ beforeText' = r.before
            /\ context' = r.context
            /\ UNCHANGED <<lineText, shortcodeSpec, items, requestDocument>>
            /\ UNCHANGED nonRequestVars

Next == Locate \/ SpecWithArguments \/ SpecAttributeOnly \/ FontAwesome

Spec == Init /\ [][Next]_vars

\* ---------------------------------------------------------------------------
\* Specification of the spec-driven provider with its completion items
\* ---------------------------------------------------------------------------

\* The paths typed as the value of an attribute.
Paths ==
    {<<"/">>, <<"a", "/">>, <<"a", "/", "b">>, <<"a", "/", "B">>, <<"n", "/">>,
     <<"/", "n">>, <<"a", "/", "a", "/">>}

\* One instance with a path as the value of the attribute "a", quoted or not,
\* after a primary value or not.
WithPath ==
    {StartMarker(ShortcodeName) \o pre \o <<"a", "=">> \o quote \o path \o post
         \o EndMarker :
        pre \in {<<" ">>, <<" ", "n", " ">>}, quote \in {<<>>, <<"\"">>},
        path \in Paths, post \in {<<>>, <<" ">>}}

\* The lines the spec-driven provider is asked about.
ProviderLines == Framed(MaxBody) \cup WellFormed(MaxTokens) \cup WithPath


ProviderInit ==
    /\ lineText \in ProviderLines
    /\ cursorPos = 0
    /\ provider = "none"
    /\ baseContext = Null
    /\ beforeText = <<>>
    /\ context = Null
    /\ shortcodeSpec = Null
    /\ items = <<>>
    /\ requestDocument = [brandColors |-> <<>>, listing |-> <<>>]
    /\ NonRequestIdle

\* SpecCompletionProvider.provideCompletionItems, for a provider created from
\* one of the specs, at some cursor offset of the line.
ProvideCompletionItems ==
    /\ provider = "none"
    /\ \E c \in 0..Len(lineText), hasArguments \in BOOLEAN, completion \in Completions :
        \E r \in {SpecClassify(lineText, c, hasArguments)} :
            /\ r.context # Null
            /\ requestDocument' \in Documents(completion)
            /\ cursorPos' = c
            /\ provider' = "spec"
            /\ baseContext' = r.base
            /\ beforeText' = r.before
            /\ context' = r.context
            /\ shortcodeSpec' = ShortcodeSpecOf(hasArguments, completion)
            /\ items' = SpecCompletionItems(shortcodeSpec', r.context, c, requestDocument')
            /\ UNCHANGED lineText
            /\ UNCHANGED nonRequestVars

\* The provider returns undefined: the cursor is in no instance of the shortcode.
ProvideNothing ==
    /\ provider = "none"
    /\ \E c \in 0..Len(lineText) :
        /\ getShortcodeContext(lineText, c, ShortcodeName) = Null
        /\ cursorPos' = c
        /\ provider' = "spec"
        /\ UNCHANGED <<lineText, baseContext, beforeText, context, shortcodeSpec, items, requestDocument>>
        /\ UNCHANGED nonRequestVars

ProviderNext == ProvideCompletionItems \/ ProvideNothing

ProviderSpec == ProviderInit /\ [][ProviderNext]_vars

\* ---------------------------------------------------------------------------
\* Vocabulary of the properties
\* ---------------------------------------------------------------------------

MarkerLen == Len(StartMarker(ShortcodeName))

EndLen == Len(EndMarker)

Offsets == 0..Len(lineText)

\* A start marker of the shortcode begins at offset i of the line.
MarkerAt(i) == OccursAt(lineText, StartMarker(ShortcodeName), i)

\* A closing marker begins at offset i of the line.
EndAt(i) == OccursAt(lineText, EndMarker, i)

\* The offsets at which a start marker, or a closing marker, begins.
MarkerOffsets == {i \in Offsets : MarkerAt(i)}

EndOffsets == {i \in Offsets : EndAt(i)}

\* getShortcodeContext has been applied to the line at the cursor.
Located == provider = "locate"

\* A provider has classified the request.
Classified ==
    provider \in {"spec-arguments", "spec-attributes", "fontawesome"} /\ context # Null

\* The request was classified by the spec-driven provider.
ClassifiedBySpec ==
    provider \in {"spec-arguments", "spec-attributes"} /\ context # Null

\* s is the nearest start marker lying wholly before the cursor.
NearestMarker(s) ==
    /\ s \in MarkerOffsets
    /\ s + MarkerLen <= cursorPos
    /\ \A t \in MarkerOffsets : t + MarkerLen <= cursorPos => t <= s

\* No closing marker lies wholly between the start marker at s and the cursor.
NotClosedBeforeCursor(s) ==
    ~\E e \in EndOffsets : e >= s /\ e + EndLen <= cursorPos

\* e is the first closing marker that begins at or after the cursor.
FirstEndFromCursor(e) ==
    /\ e \in EndOffsets
    /\ e >= cursorPos
    /\ \A f \in EndOffsets : f >= cursorPos => e <= f

\* t is u without its leading and trailing white space.
IsTrimOf(t, u) ==
    \E i \in 0..(Len(u) - Len(t)) :
        /\ t = SubSeq(u, i + 1, i + Len(t))
        /\ \A k \in 1..i : u[k] \in WhiteSpace
        /\ \A k \in (i + Len(t) + 1)..Len(u) : u[k] \in WhiteSpace
        /\ t # <<>> => t[1] \notin WhiteSpace /\ t[Len(t)] \notin WhiteSpace

\* The text of the line between the nearest start marker and the cursor.
EnclosingText ==
    LET s == CHOOSE t \in MarkerOffsets : NearestMarker(t)
    IN  SubSeq(lineText, s + MarkerLen + 1, cursorPos)

\* The offset just after the nearest start marker.
EnclosingMarkerEnd == (CHOOSE t \in MarkerOffsets : NearestMarker(t)) + MarkerLen

\* ---------------------------------------------------------------------------
\* C1
\* ---------------------------------------------------------------------------

\* No start marker lies wholly before the cursor.
BeforeFirstInstance ==
    \A s \in MarkerOffsets : s + MarkerLen > cursorPos

\* Every closing marker of the line ends at or before the cursor.
AfterLastInstance ==
    \A e \in EndOffsets : e + EndLen <= cursorPos

\* The cursor is after the closing marker of an instance and no start marker
\* lies wholly between that closing marker and the cursor.
BetweenInstances ==
    \E s \in MarkerOffsets, e \in EndOffsets :
        /\ s + MarkerLen <= e
        /\ e + EndLen <= cursorPos
        /\ \A t \in MarkerOffsets : t >= e + EndLen => t + MarkerLen > cursorPos

\* C1: getShortcodeContext returns null for every cursor outside all instances
\* of the shortcode on the line: before the first start marker, after the last
\* closing marker, or between the closing marker of one instance and the start
\* marker of the next.
C1_NullOutsideInstances ==
    Located /\ (BeforeFirstInstance \/ AfterLastInstance \/ BetweenInstances)
        => baseContext = Null

\* C1 witness: the cursor sits between two complete instances and the result is null.
C1_Witness ==
    /\ Located
    /\ BetweenInstances
    /\ \E s \in MarkerOffsets, e \in EndOffsets : cursorPos <= s /\ s < e
    /\ baseContext = Null

\* ---------------------------------------------------------------------------
\* C2
\* ---------------------------------------------------------------------------

\* C2: when the nearest start marker before the cursor is not closed before the
\* cursor and a closing marker begins at or after the cursor, the context exists
\* and its fullContent is the trimmed text between the end of that start marker
\* and the first closing marker at or after the cursor.
C2_FullContentIsTrimmedSpan ==
    Located =>
        \A s \in MarkerOffsets, e \in EndOffsets :
            NearestMarker(s) /\ NotClosedBeforeCursor(s) /\ FirstEndFromCursor(e)
                => /\ baseContext # Null
                   /\ IsTrimOf(baseContext.fullContent,
                               SubSeq(lineText, s + MarkerLen + 1, e))

\* C2 witness: a located instance whose content is surrounded by white space
\* on both sides, and whose fullContent is the text without it.
C2_Witness ==
    /\ Located
    /\ baseContext # Null
    /\ baseContext.fullContent # <<>>
    /\ \E s \in MarkerOffsets, e \in EndOffsets :
        /\ NearestMarker(s) /\ NotClosedBeforeCursor(s) /\ FirstEndFromCursor(e)
        /\ lineText[s + MarkerLen + 1] \in WhiteSpace
        /\ lineText[e] \in WhiteSpace
        /\ Len(baseContext.fullContent) = e - (s + MarkerLen) - 2

\* ---------------------------------------------------------------------------
\* C3
\* ---------------------------------------------------------------------------

\* The classification of the provider that answered, computed from the text
\* between the nearest start marker before the cursor and the cursor.
ClassificationOfEnclosing ==
    LET hasSpaceAfterName == CharAt(lineText, EnclosingMarkerEnd) = " "
    IN  CASE provider = "spec-arguments" ->
                analyzeShortcodeContext(baseContext, EnclosingText, cursorPos,
                                        hasSpaceAfterName, "hasPrimaryValue", "icon")
          [] provider = "spec-attributes" ->
                analyzeAttributeOnlyContext(baseContext, EnclosingText, cursorPos,
                                            hasSpaceAfterName)
          [] provider = "fontawesome" ->
                analyzeShortcodeContext(baseContext, EnclosingText, cursorPos,
                                        hasSpaceAfterName, "hasIconSpecified", "icon")

\* The line holds at least two instances: two start markers, each followed by
\* a closing marker before the next start marker or the end of the line.
SeveralInstances ==
    \E s1, s2 \in MarkerOffsets, e1, e2 \in EndOffsets :
        s1 < e1 /\ e1 < s2 /\ s2 < e2

\* C3: the classification a provider hands to the synthesizer (completion kind,
\* typedText, tokenStart) is the one computed from the text between the
\* enclosing instance's start marker and the cursor.
C3_ClassifiedFromEnclosingInstance ==
    Classified /\ SeveralInstances =>
        /\ context.completionType = ClassificationOfEnclosing.completionType
        /\ context.typedText = ClassificationOfEnclosing.typedText
        /\ context.tokenStart = ClassificationOfEnclosing.tokenStart

\* The same statement for the spec-driven provider alone.
C3_SpecProviderUsesEnclosingInstance ==
    ClassifiedBySpec =>
        /\ beforeText = EnclosingText
        /\ context.completionType = ClassificationOfEnclosing.completionType
        /\ context.typedText = ClassificationOfEnclosing.typedText
        /\ context.tokenStart = ClassificationOfEnclosing.tokenStart

\* ---------------------------------------------------------------------------
\* C4
\* ---------------------------------------------------------------------------

\* text ends with identifier=partial: identifier is text[i..j), '=' is at j,
\* partial is the rest and holds no white space.
EndsWithAssignment(text, i, j) ==
    /\ 0 <= i /\ i < j /\ j < Len(text)
    /\ text[j + 1] = "="
    /\ \A k \in (i + 1)..j : text[k] \in WordChars
    /\ \A k \in (j + 2)..Len(text) : text[k] \notin WhiteSpace

\* C4: when the text handed to the classifier ends with identifier=partial
\* (partial without white space; the leftmost such reading of the text, as the
\* pattern matches it), the kind is attribute-value, attributeName is the
\* identifier, typedText is partial without one leading quote character and
\* tokenStart is the cursor offset minus the length of typedText, whatever the
\* primary-value predicate reports.
C4_AttributeValueHasPriority ==
    Classified =>
        LET readings == {r \in (0..Len(beforeText)) \X (0..Len(beforeText)) :
                            EndsWithAssignment(beforeText, r[1], r[2])}
            leftmost == CHOOSE r \in readings : \A q \in readings : r[1] <= q[1]
            partial == SubSeq(beforeText, leftmost[2] + 2, Len(beforeText))
            typed == IF partial # <<>> /\ partial[1] \in QuoteChars
                     THEN Tail(partial) ELSE partial
        IN  readings # {} =>
                /\ context.completionType = "attribute-value"
                /\ context.attributeName = SubSeq(beforeText, leftmost[1] + 1, leftmost[2])
                /\ context.typedText = typed
                /\ context.tokenStart = cursorPos - Len(typed)

\* C4 witness: a quoted partial value was typed after a primary value, the
\* predicate reports the primary value, and the request is attribute-value.
C4_Witness ==
    /\ provider = "spec-arguments"
    /\ context # Null
    /\ hasPrimaryValue(Trim(beforeText))
    /\ beforeText # <<>>
    /\ beforeText[Len(beforeText)] \in QuoteChars
    /\ context.completionType = "attribute-value"
    /\ context.attributeName = <<"a">>
    /\ context.typedText = <<>>

\* ---------------------------------------------------------------------------
\* C5
\* ---------------------------------------------------------------------------

\* C5: every classified context has tokenStart <= cursorOffset.
C5_TokenStartAtMostCursor ==
    Classified => context.tokenStart <= cursorPos

\* C5 witness: a primary-value request with the cursor right after the marker
\* and a space right after the cursor; tokenStart is the cursor offset.
C5_Witness ==
    /\ ClassifiedBySpec
    /\ context.completionType = "icon"
    /\ CharAt(lineText, cursorPos) = " "
    /\ context.tokenStart = cursorPos

\* ---------------------------------------------------------------------------
\* C6
\* ---------------------------------------------------------------------------

\* C6: in every classified context typedText is the text of the line in the
\* range [tokenStart, cursorOffset).
C6_TypedTextEndsAtCursor ==
    ClassifiedBySpec =>
        context.typedText = Substring(lineText, context.tokenStart, cursorPos)

\* ---------------------------------------------------------------------------
\* C7
\* ---------------------------------------------------------------------------

\* C7: needsLeadingSpace is true only when the character right after the start
\* marker is not white space and nothing has been typed between the start
\* marker and the cursor.
C7_LeadingSpaceOnlyWhenNothingTyped ==
    ClassifiedBySpec /\ context.needsLeadingSpace =>
        /\ CharAt(lineText, EnclosingMarkerEnd) \notin WhiteSpace
        /\ Trim(EnclosingText) = <<>>

\* ---------------------------------------------------------------------------
\* Vocabulary of the properties of the completion items
\* ---------------------------------------------------------------------------

\* The spec-driven provider answered with the items of a classified context.
Provided == provider = "spec" /\ context # Null

\* The value source the request of the current state was completed from.
RequestCompletion == shortcodeSpec.attributes[1].completion

\* The items are value candidates (of the argument or of an attribute).
ValueRequest ==
    Provided /\ context.completionType \in {"icon", "attribute-value"}

\* The text between the cursor and the first closing marker at or after it.
TextBeforeEnd ==
    LET e == CHOOSE e \in EndOffsets : FirstEndFromCursor(e)
    IN  Substring(lineText, cursorPos, e)

\* The UTF-16 code unit of the characters that occur in sort keys.
CodeUnit(c) ==
    CASE c = "." -> 46
      [] c = "0" -> 48
      [] c = "1" -> 49
      [] c = "2" -> 50
      [] c = "3" -> 51
      [] c = "4" -> 52
      [] c = "9" -> 57
      [] c = "C" -> 67
      [] c = "N" -> 78
      [] c = "a" -> 97
      [] c = "b" -> 98
      [] c = "c" -> 99
      [] c = "e" -> 101
      [] c = "f" -> 102
      [] c = "l" -> 108
      [] c = "n" -> 110
      [] c = "r" -> 114
      [] c = "s" -> 115
      [] c = "t" -> 116
      [] c = "u" -> 117

\* s < t in the lexical order of strings
RECURSIVE LexLess(_, _)
LexLess(s, t) ==
    IF t = <<>> THEN FALSE
    ELSE IF s = <<>> THEN TRUE
    ELSE IF s[1] # t[1] THEN CodeUnit(s[1]) < CodeUnit(t[1])
    ELSE LexLess(Tail(s), Tail(t))

\* The position of a value among the declared values of the value source.
DeclaredIndex(value) ==
    CHOOSE i \in 1..Len(RequestCompletion.values) : RequestCompletion.values[i] = value

\* The items of an enum request that are not the default value.
NonDefaultItems ==
    {i \in 1..Len(items) : items[i].value # RequestCompletion.default}

\* ---------------------------------------------------------------------------
\* C8
\* ---------------------------------------------------------------------------

\* C8: every item the provider returns, whatever the value source and also for
\* attribute names, has the range [tokenStart, cursorOffset) of the classified
\* context.
C8_RangeIsTokenStartToCursor ==
    Provided =>
        \A i \in 1..Len(items) : items[i].range = <<context.tokenStart, cursorPos>>

\* C8 witness: attribute-name items were returned for a name typed in part
\* after a primary value, so that tokenStart is neither the content start nor
\* the cursor.
C8_Witness ==
    /\ Provided
    /\ context.completionType = "attribute-name"
    /\ Len(items) > 0
    /\ context.typedText = <<"a">>
    /\ context.contentStart < context.tokenStart
    /\ context.tokenStart < cursorPos

\* ---------------------------------------------------------------------------
\* C9
\* ---------------------------------------------------------------------------

\* C9: every value item that is not a directory inserts its value, preceded by
\* one space exactly when needsLeadingSpace holds and followed by one space
\* exactly when hasSpaceBeforeEnd does not hold; when the text between the
\* cursor and the closing marker already ends with a space, no space is
\* inserted after the value.
C9_InsertTextSeparators ==
    ValueRequest =>
        \A i \in 1..Len(items) :
            ~items[i].isDirectory =>
                /\ items[i].insertText =
                       (IF context.needsLeadingSpace THEN <<" ">> ELSE <<>>)
                       \o items[i].value
                       \o (IF context.hasSpaceBeforeEnd THEN <<>> ELSE <<" ">>)
                /\ EndsWith(TextBeforeEnd, <<" ">>) =>
                       items[i].insertText[Len(items[i].insertText)] # " "

\* C9 witness: value items that are not directories were returned while a
\* space stands right before the closing marker, after the cursor.
C9_Witness ==
    /\ ValueRequest
    /\ EndsWith(TextBeforeEnd, <<" ">>)
    /\ \E i \in 1..Len(items) : ~items[i].isDirectory

\* ---------------------------------------------------------------------------
\* C10
\* ---------------------------------------------------------------------------

\* C10 as stated: for an enum value source, ordering the items by sortText
\* keeps the non-default items in the order in which their values are
\* declared.
C10_NonDefaultsKeepDeclaredOrder ==
    ValueRequest /\ RequestCompletion.type = "enum" =>
        \A i, j \in NonDefaultItems :
            DeclaredIndex(items[i].value) < DeclaredIndex(items[j].value) =>
                ~LexLess(items[j].sortText, items[i].sortText)

\* C10 amended: for an enum value source, ordering the items by sortText puts
\* the non-default items in the ascending lexical order of their values.
C10_NonDefaultsInLexicalOrder ==
    ValueRequest /\ RequestCompletion.type = "enum" =>
        \A i, j \in NonDefaultItems :
            LexLess(items[i].sortText, items[j].sortText)
                <=> LexLess(items[i].value, items[j].value)

\* C10 witness: an enum request returned two non-default items whose declared
\* order is the reverse of the lexical order of their values.
C10_Witness ==
    /\ ValueRequest
    /\ RequestCompletion.type = "enum"
    /\ \E i, j \in NonDefaultItems :
           /\ DeclaredIndex(items[i].value) < DeclaredIndex(items[j].value)
           /\ LexLess(items[j].value, items[i].value)

\* ---------------------------------------------------------------------------
\* C11
\* ---------------------------------------------------------------------------

\* The items of an enum or boolean request that stand for the declared default.
DefaultItems ==
    {i \in 1..Len(items) : items[i].value = RequestCompletion.default}

\* C11: among the items of one enum or boolean value source, the sortText of
\* the item of the declared default is strictly before the sortText of every
\* item that is not the default.
C11_DefaultSortsFirst ==
    ValueRequest /\ RequestCompletion.type \in {"enum", "boolean"} =>
        \A i \in DefaultItems : \A j \in NonDefaultItems :
            LexLess(items[i].sortText, items[j].sortText)

\* C11 witness: the default was returned together with a non-default value
\* that is lexically before it.
C11_Witness ==
    /\ ValueRequest
    /\ RequestCompletion.type \in {"enum", "boolean"}
    /\ \E i \in DefaultItems : \E j \in NonDefaultItems :
           LexLess(items[j].value, items[i].value)

\* ---------------------------------------------------------------------------
\* filterByPrefix
\* ---------------------------------------------------------------------------

\* A filtered list holds at most MaxFilterValues values.
MaxFilterValues == 2

\* A plausible slip: the typed text is looked for anywhere in the value.
ContainsLowerCased(v, lowerTyped) == Includes(ToLowerCase(v), lowerTyped)

\* v.toLowerCase().startsWith(lowerTyped)
StartsWithLowerCased(v, lowerTyped) == StartsWith(ToLowerCase(v), lowerTyped)

filterByPrefix(values, typedText) ==
    IF typedText = <<>> THEN values
    ELSE SelectSeq(values, LAMBDA v : StartsWithLowerCased(v, ToLowerCase(typedText)))

\* The values and typed texts filterByPrefix is called with.
FilterTexts ==
    {<<>>, <<"a">>, <<"A">>, <<"b">>, <<"a", "b">>, <<"A", "b">>, <<"b", "a">>,
     <<"b", "A">>, <<"a", "B", "a">>}

RECURSIVE FilterLists(_)
FilterLists(k) ==
    IF k = 0 THEN {<<>>}
    ELSE FilterLists(k - 1)
             \cup {Append(l, v) : l \in {m \in FilterLists(k - 1) : Len(m) = k - 1},
                                  v \in FilterTexts}

FilterInit ==
    /\ filterValues \in FilterLists(MaxFilterValues)
    /\ filterTyped \in FilterTexts
    /\ filterResult = NotCalled
    /\ NonFilterIdle

\* filterByPrefix(values, typedText)
FilterByPrefix ==
    /\ filterResult = NotCalled
    /\ filterResult' = filterByPrefix(filterValues, filterTyped)
    /\ UNCHANGED <<filterValues, filterTyped>>
    /\ UNCHANGED nonFilterVars

FilterNext == FilterByPrefix

FilterSpec == FilterInit /\ [][FilterNext]_vars

\* ---------------------------------------------------------------------------
\* C12
\* ---------------------------------------------------------------------------

\* filterByPrefix has returned.
Filtered == filterResult # NotCalled

\* The lower-cased value starts with the lower-cased typed text.
IsPrefixIgnoringCase(typed, v) ==
    /\ Len(typed) <= Len(v)
    /\ \A k \in 1..Len(typed) : LowerChar(v[k]) = LowerChar(typed[k])

\* The positions of the values that start with the typed text.
MatchingPositions ==
    {i \in 1..Len(filterValues) : IsPrefixIgnoringCase(filterTyped, filterValues[i])}

\* C12: filterByPrefix returns exactly the values whose lower-cased form
\* starts with the lower-cased typed text, in their input order; it returns
\* all values when the typed text is empty, and never a value that holds the
\* typed text only at a later position.
C12_FilterByPrefixExact ==
    Filtered =>
        /\ Len(filterResult) = Cardinality(MatchingPositions)
        /\ \A k \in 1..Len(filterResult) :
               \E i \in MatchingPositions :
                   /\ Cardinality({j \in MatchingPositions : j <= i}) = k
                   /\ filterResult[k] = filterValues[i]
        /\ filterTyped = <<>> => filterResult = filterValues
        /\ \A k \in 1..Len(filterResult) :
               IsPrefixIgnoringCase(filterTyped, filterResult[k])

\* C12 witness: a typed text in upper case kept one value and dropped a value
\* that holds the typed text at a later position.
C12_Witness ==
    /\ Filtered
    /\ filterTyped = <<"A">>
    /\ filterValues = <<<<"b", "a">>, <<"a", "b">>>>
    /\ filterResult = <<<<"a", "b">>>>

\* ---------------------------------------------------------------------------
\* C13
\* ---------------------------------------------------------------------------

\* The items are the candidates of the value source: the request is for the
\* argument or for the value of the attribute the spec declares.
SourceRequest ==
    /\ ValueRequest
    /\ context.completionType = "attribute-value" => context.attributeName = <<"a">>

\* The entries of the palette whose name starts with the typed text.
OfferedBrandColors ==
    SelectSeq(requestDocument.brandColors,
              LAMBDA brandColor : IsPrefixIgnoringCase(context.typedText, brandColor.name))

\* C13: for a color value source the items of the palette come first, one for
\* each entry whose name starts with the typed text, and each inserts the
\* value of its entry between the separators, not the name of the entry.
C13_BrandColorInsertsValue ==
    SourceRequest /\ RequestCompletion.type = "color" =>
        /\ Len(items) >= Len(OfferedBrandColors)
        /\ \A i \in 1..Len(OfferedBrandColors) :
               /\ items[i].label = OfferedBrandColors[i].name
               /\ items[i].insertText =
                      (IF context.needsLeadingSpace THEN <<" ">> ELSE <<>>)
                      \o OfferedBrandColors[i].value
                      \o (IF context.hasSpaceBeforeEnd THEN <<>> ELSE <<" ">>)
               /\ OfferedBrandColors[i].name # OfferedBrandColors[i].value =>
                      items[i].insertText #
                          (IF context.needsLeadingSpace THEN <<" ">> ELSE <<>>)
                          \o OfferedBrandColors[i].name
                          \o (IF context.hasSpaceBeforeEnd THEN <<>> ELSE <<" ">>)

\* C13 witness: with a typed prefix, a palette entry was offered whose value
\* does not start with the typed text, next to an entry that was filtered out.
C13_Witness ==
    /\ SourceRequest
    /\ RequestCompletion.type = "color"
    /\ context.typedText # <<>>
    /\ Len(OfferedBrandColors) = 1
    /\ Len(requestDocument.brandColors) = 2
    /\ ~IsPrefixIgnoringCase(context.typedText, OfferedBrandColors[1].value)

\* ---------------------------------------------------------------------------
\* C14
\* ---------------------------------------------------------------------------

\* The request is completed from a file value source.
FileRequest == SourceRequest /\ RequestCompletion.type = "file"

\* ext is the extension of name: the text from the last '.' of the name, which
\* is not its first character; compared without regard to case.
HasExtension(name, ext) ==
    \E k \in 2..Len(name) :
        /\ name[k] = "."
        /\ \A j \in (k + 1)..Len(name) : name[j] # "."
        /\ Len(ext) = Len(name) - k + 1
        /\ \A j \in 1..Len(ext) : LowerChar(ext[j]) = LowerChar(name[k + j - 1])

\* The entry is offered when nothing is typed: it is not hidden, and it is a
\* directory or a file that the allow-list, when one is given, lets through.
Eligible(entry) ==
    /\ entry.name[1] # "."
    /\ \/ entry.isDirectory
       \/ RequestCompletion.extensions = <<>>
       \/ \E k \in 1..Len(RequestCompletion.extensions) :
              HasExtension(entry.name, RequestCompletion.extensions[k])

\* The positions of the eligible entries of the listing of the document's
\* directory.
EligiblePositions ==
    {i \in 1..Len(requestDocument.listing) : Eligible(requestDocument.listing[i])}

LastSlash ==
    CHOOSE k \in 0..(Len(context.typedText) - 1) :
        /\ context.typedText[k + 1] = "/"
        /\ \A j \in (k + 1)..(Len(context.typedText) - 1) : context.typedText[j + 1] # "/"

\* The typed text up to, through and after its last '/'.
TypedDirectory == SubSeq(context.typedText, 1, LastSlash)

TypedThroughSlash == SubSeq(context.typedText, 1, LastSlash + 1)

TypedAfterSlash == SubSeq(context.typedText, LastSlash + 2, Len(context.typedText))

\* The typed directory, resolved against the document's directory, exists.
TypedDirectoryExists ==
    \/ TypedDirectory = <<>>
    \/ /\ TypedDirectory = <<"a">>
       /\ \E i \in 1..Len(requestDocument.listing) :
              /\ requestDocument.listing[i].name = <<"a">>
              /\ requestDocument.listing[i].isDirectory

\* The listing of the typed directory.
TypedDirectoryListing ==
    IF TypedDirectory = <<>> THEN requestDocument.listing ELSE SubListing

\* The positions of the entries of the typed directory that are eligible and
\* start with the text typed after the last '/'.
NarrowedPositions ==
    {i \in 1..Len(TypedDirectoryListing) :
        /\ Eligible(TypedDirectoryListing[i])
        /\ IsPrefixIgnoringCase(TypedAfterSlash, TypedDirectoryListing[i].name)}

\* C15: for a file value source and a typed text that holds '/', the items
\* are the entries of the directory named by the typed text up to its last
\* '/', filtered by the text after it; each inserts the typed text through
\* the last '/' and the name of its entry; a directory item ends with '/',
\* has no trailing space and re-triggers the suggestions, a file item does
\* not re-trigger them.
C15_FileItemsUnderTypedDirectory ==
    FileRequest /\ Includes(context.typedText, <<"/">>) =>
        /\ ~TypedDirectoryExists => items = <<>>
        /\ TypedDirectoryExists =>
            /\ Len(items) = Cardinality(NarrowedPositions)
            /\ \A k \in 1..Len(items) :
                \E i \in NarrowedPositions :
                    LET entry == TypedDirectoryListing[i]
                        lead == IF context.needsLeadingSpace THEN <<" ">> ELSE <<>>
                        trail == IF context.hasSpaceBeforeEnd THEN <<>> ELSE <<" ">>
                    IN  /\ Cardinality({j \in NarrowedPositions : j <= i}) = k
                        /\ items[k].label = entry.name
                        /\ items[k].command = entry.isDirectory
                        /\ entry.isDirectory =>
                               items[k].insertText =
                                   lead \o TypedThroughSlash \o entry.name \o <<"/">>
                        /\ ~entry.isDirectory =>
                               items[k].insertText =
                                   lead \o TypedThroughSlash \o entry.name \o trail

\* C15 witness: "a/b" was typed; a directory and a file of the directory "a"
\* were offered and an entry that does not start with "b" was left out.
C15_Witness ==
    /\ FileRequest
    /\ ToLowerCase(context.typedText) = <<"a", "/", "b">>
    /\ TypedDirectoryExists
    /\ \E i, j \in 1..Len(items) : items[i].isDirectory /\ ~items[j].isDirectory
    /\ \E i \in 1..Len(SubListing) :
           /\ Eligible(SubListing[i])
           /\ i \notin NarrowedPositions

\* ---------------------------------------------------------------------------
\* SpecCompletionProvider.parseFrontmatterValues
\*
\* A document is its delimiters ("none": the text does not start with '---';
\* "open": no second '---' follows; "closed": both are there) and the lines
\* between them.  A line is its indentation and, of its trimmed text, whether
\* it starts with "- ", the key before its ':' ("" for a blank line) and the
\* text after the ':' ("" for a section header).
\* ---------------------------------------------------------------------------

\* A frontmatter holds at most MaxFrontmatterLines lines.
MaxFrontmatterLines == 4

FrontmatterLine(indent, dash, key, value) ==
    [indent |-> indent, dash |-> dash, key |-> key, value |-> value]

\* new RegExp(`^${keyParts[i]}:\\s*$`).test(trimmed)
IsSectionHeader(line, keyPart) ==
    ~line.dash /\ line.key = keyPart /\ line.value = ""

\* trimmed.match(new RegExp(`${valueKey}:\\s*["']?([^"'\\n]+)["']?`))
MatchesValue(line, valueKey) ==
    line.key = valueKey /\ line.value # ""

\* trimmed.length > 0
NotBlank(line) == line.key # ""

\* valuePath || 'shortname'
ValueKey == "shortname"

\* The state of the loop over the lines of the frontmatter.
LoopState(currentIndent, inTargetSection, sectionDepth, values, exited) ==
    [currentIndent |-> currentIndent, inTargetSection |-> inTargetSection,
     sectionDepth |-> sectionDepth, values |-> values, exited |-> exited]

\* One iteration of the loop: the check for section headers, then the list
\* items of the target section or the exit from it.
ParseLine(st, line, keyParts) ==
    LET matched == /\ st.sectionDepth < Len(keyParts)
                   /\ IsSectionHeader(line, keyParts[st.sectionDepth + 1])
        sectionDepth == IF matched THEN st.sectionDepth + 1 ELSE st.sectionDepth
        entered == matched /\ sectionDepth = Len(keyParts)
        inTargetSection == st.inTargetSection \/ entered
        currentIndent == IF entered THEN line.indent ELSE st.currentIndent
    IN  IF inTargetSection /\ line.indent > currentIndent
        THEN LoopState(currentIndent, inTargetSection, sectionDepth,
                       IF MatchesValue(line, ValueKey)
                       THEN Append(st.values, [key |-> line.value])
                       ELSE st.values,
                       FALSE)
        ELSE IF inTargetSection /\ line.indent <= currentIndent /\ NotBlank(line)
        THEN LoopState(currentIndent, inTargetSection, sectionDepth, st.values, TRUE)
        ELSE LoopState(currentIndent, inTargetSection, sectionDepth, st.values, FALSE)

\* for (const line of lines) { ... } with its break
RECURSIVE ParseLines(_, _, _)
ParseLines(st, lines, keyParts) ==
    IF lines = <<>> \/ st.exited THEN st
    ELSE ParseLines(ParseLine(st, Head(lines), keyParts), Tail(lines), keyParts)

parseFrontmatterValues(text, keyParts) ==
    IF text.delimiters # "closed" THEN <<>>
    ELSE ParseLines(LoopState(0, FALSE, 0, <<>>, FALSE), text.lines, keyParts).values

\* The lines a frontmatter is made of: the headers of a section, of its
\* sub-section and of sibling sections, list items with the field and with
\* another field at several indentations, and a blank line.
FrontmatterLineKinds ==
    {FrontmatterLine(0, FALSE, "acronyms", ""),
     FrontmatterLine(2, FALSE, "keys", ""),
     FrontmatterLine(4, TRUE, "shortname", "API"),
     FrontmatterLine(4, TRUE, "shortname", "CSS"),
     FrontmatterLine(6, FALSE, "longname", "Sheets"),
     FrontmatterLine(0, FALSE, "filters", ""),
     FrontmatterLine(2, TRUE, "shortname", "other"),
     FrontmatterLine(0, FALSE, "", "")}

RECURSIVE FrontmatterBodies(_)
FrontmatterBodies(k) ==
    IF k = 0 THEN {<<>>}
    ELSE FrontmatterBodies(k - 1)
             \cup {Append(b, l) : b \in {c \in FrontmatterBodies(k - 1) : Len(c) = k - 1},
                                  l \in FrontmatterLineKinds}

\* The section paths asked for: 'acronyms' and 'acronyms.keys'.
FrontmatterKeys == {<<"acronyms">>, <<"acronyms", "keys">>}

FrontmatterInit ==
    /\ frontmatterText \in
           {[delimiters |-> d, lines |-> b] :
               d \in {"none", "open", "closed"},
               b \in FrontmatterBodies(MaxFrontmatterLines)}
    /\ frontmatterKey \in FrontmatterKeys
    /\ frontmatterValues = NoValuesYet
    /\ NonFrontmatterIdle

\* parseFrontmatterValues(document, key, valuePath)
ParseFrontmatterValues ==
    /\ frontmatterValues = NoValuesYet
    /\ frontmatterValues' = parseFrontmatterValues(frontmatterText, frontmatterKey)
    /\ UNCHANGED <<frontmatterText, frontmatterKey>>
    /\ UNCHANGED nonFrontmatterVars

FrontmatterNext == ParseFrontmatterValues

FrontmatterSpec == FrontmatterInit /\ [][FrontmatterNext]_vars


\* ---------------------------------------------------------------------------
\* C16  Frontmatter extraction for a dot-separated section path
\* ---------------------------------------------------------------------------

\* The position of the first header of keyPart after position from, or 0.
HeaderAfter(lines, keyPart, from) ==
    LET headers == {i \in (from + 1)..Len(lines) : IsSectionHeader(lines[i], keyPart)}
    IN  IF headers = {} THEN 0
        ELSE CHOOSE i \in headers : \A j \in headers : i <= j

\* The position of the header that completes the section path, or 0.
RECURSIVE SectionHeader(_, _, _)
SectionHeader(lines, keyParts, from) ==
    IF keyParts = <<>> THEN from
    ELSE LET h == HeaderAfter(lines, Head(keyParts), from)
         IN  IF h = 0 THEN 0 ELSE SectionHeader(lines, Tail(keyParts), h)

\* The position of the first non-blank line after the header whose
\* indentation is at or below the header's, or one past the last line.
SectionEnd(lines, h) ==
    LET ends == {j \in (h + 1)..Len(lines) :
                    NotBlank(lines[j]) /\ lines[j].indent <= lines[h].indent}
    IN  IF ends = {} THEN Len(lines) + 1
        ELSE CHOOSE j \in ends : \A k \in ends : j <= k

\* The named field of every list item under the section, in declaration order.
SectionValues(lines, keyParts) ==
    LET h == SectionHeader(lines, keyParts, 0)
        under == [j \in 1..Len(lines) |-> j]
        inside(j) == /\ h < j /\ j < SectionEnd(lines, h)
                     /\ lines[j].indent > lines[h].indent
                     /\ MatchesValue(lines[j], ValueKey)
        chosen == SelectSeq(under, inside)
    IN  IF h = 0 THEN <<>>
        ELSE [n \in 1..Len(chosen) |-> [key |-> lines[chosen[n]].value]]

\* C16: frontmatter extraction for a section path returns, in declaration
\* order, the named field (default shortname) of every list item under that
\* section and stops at the first non-blank line whose indentation is at or
\* below the section header's.  The method of spec-provider.ts violates it.
C16_SectionValuesInOrder ==
    (frontmatterValues # NoValuesYet /\ frontmatterText.delimiters = "closed")
        => frontmatterValues = SectionValues(frontmatterText.lines, frontmatterKey)

\* What the method does instead: once the header that completes the path is
\* read, the same line takes the exit branch, so no value is ever returned.
C16_NothingReturned ==
    frontmatterValues # NoValuesYet => frontmatterValues = <<>>

\* A call on a frontmatter whose section has list items with the field.
C16_SectionWithItems ==
    /\ frontmatterValues # NoValuesYet
    /\ frontmatterText.delimiters = "closed"
    /\ Len(SectionValues(frontmatterText.lines, frontmatterKey)) = 2
    /\ frontmatterKey = <<"acronyms", "keys">>


\* ---------------------------------------------------------------------------
\* findWorkspaceFile and findBrandFile
\*
\* A path is the sequence of its segments, a segment a text; its text is
\* "/" for no segment and "/s1/s2..." otherwise, as vscode.Uri.path gives it.
\* ---------------------------------------------------------------------------

\* A document lies at most MaxDepth directories below the root.
MaxDepth == 3

\* The names of directories.
DirectoryNames == {<<"a">>, <<"a", "b">>}

\* The name of a document.
DocumentName == <<"d">>

RECURSIVE Directories(_)
Directories(k) ==
    IF k = 0 THEN {<<>>}
    ELSE Directories(k - 1)
             \cup {Append(d, n) : d \in {e \in Directories(k - 1) : Len(e) = k - 1},
                                  n \in DirectoryNames}

\* uri.path
RECURSIVE SegmentsText(_)
SegmentsText(segments) ==
    IF segments = <<>> THEN <<>>
    ELSE <<"/">> \o Head(segments) \o SegmentsText(Tail(segments))

UriPath(segments) == IF segments = <<>> THEN <<"/">> ELSE SegmentsText(segments)

\* vscode.Uri.joinPath(uri, '..')
JoinParent(segments) ==
    IF segments = <<>> THEN <<>> ELSE SubSeq(segments, 1, Len(segments) - 1)

\* The condition of the while loop.
InWorkspace(dir, workspace) ==
    \/ UriPath(dir) = UriPath(workspace)
    \/ StartsWith(UriPath(dir), UriPath(workspace) \o <<"/">>)

\* The directories from dir up to the root.
Ancestors(dir) == {SubSeq(dir, 1, k) : k \in 0..Len(dir)}

\* vscode.workspace.getWorkspaceFolder(document.uri) is a folder that holds
\* the document; the file looked for lies in any of the directories above it.
FindInit ==
    /\ finder = "none"
    /\ documentUri \in {Append(d, DocumentName) : d \in Directories(MaxDepth)}
    /\ workspaceUri \in Ancestors(JoinParent(documentUri))
    /\ existing \in SUBSET Ancestors(JoinParent(documentUri))
    /\ currentDir = <<>>
    /\ probed = <<>>
    /\ found = Searching
    /\ NonFindIdle

\* let currentDir = vscode.Uri.joinPath(documentUri, '..')
StartSearch(name) ==
    /\ finder = "none"
    /\ finder' = name
    /\ currentDir' = JoinParent(documentUri)
    /\ UNCHANGED <<documentUri, workspaceUri, existing, probed, found>>
    /\ UNCHANGED nonFindVars

FindWorkspaceFile == StartSearch("findWorkspaceFile")

FindBrandFile == StartSearch("findBrandFile")

\* One test of the loop condition and, when it holds, one pass of the body.
ProbeDirectory ==
    /\ finder # "none"
    /\ ~found.returned
    /\ IF ~InWorkspace(currentDir, workspaceUri)
       THEN /\ found' = [returned |-> TRUE, file |-> Null]
            /\ UNCHANGED <<currentDir, probed>>
       ELSE /\ probed' = Append(probed, currentDir)
            /\ IF currentDir \in existing
               THEN /\ found' = [returned |-> TRUE, file |-> [directory |-> currentDir]]
                    /\ UNCHANGED currentDir
               ELSE IF UriPath(JoinParent(currentDir)) = UriPath(currentDir)
               THEN /\ found' = [returned |-> TRUE, file |-> Null]
                    /\ UNCHANGED currentDir
               ELSE /\ currentDir' = JoinParent(currentDir)
                    /\ UNCHANGED found
    /\ UNCHANGED <<finder, documentUri, workspaceUri, existing>>
    /\ UNCHANGED nonFindVars

FindNext == FindWorkspaceFile \/ FindBrandFile \/ ProbeDirectory

FindSpec == FindInit /\ [][FindNext]_vars

\* ---------------------------------------------------------------------------
\* C17  Workspace-file discovery walks up to the workspace root
\* ---------------------------------------------------------------------------

\* The document's directory and each parent in turn, the workspace root
\* included and nothing outside it, nearest first.
RECURSIVE WalkUp(_, _)
WalkUp(dir, workspace) ==
    IF dir = workspace \/ dir = <<>> THEN <<dir>>
    ELSE <<dir>> \o WalkUp(JoinParent(dir), workspace)

\* The position in the walk of the first directory that has the file, or 0.
FirstWithFile(walk) ==
    LET having == {i \in 1..Len(walk) : walk[i] \in existing}
    IN  IF having = {} THEN 0 ELSE CHOOSE i \in having : \A j \in having : i <= j

\* The search has returned what the walk prescribes: the directories were
\* probed in turn up to the first one with the file, whose file is returned,
\* or all of them and none is returned.
ReturnedAsWalked ==
    LET walk == WalkUp(JoinParent(documentUri), workspaceUri)
        first == FirstWithFile(walk)
    IN  IF first = 0
        THEN probed = walk /\ found.file = Null
        ELSE probed = SubSeq(walk, 1, first) /\ found.file = [directory |-> walk[first]]

\* C17: the search probes the document's directory and then each parent in
\* turn, returns the file of the first probed directory that has it, probes
\* the workspace root itself but no directory outside it, and returns none
\* when no probed directory has the file.  A workspace folder that is the
\* root of the file system violates it.
C17_SearchWalksToWorkspaceRoot ==
    found.returned => ReturnedAsWalked

\* For a workspace folder below the root of the file system the search does
\* what C17 says.
C17_BelowFileSystemRoot ==
    (found.returned /\ workspaceUri # <<>>) => ReturnedAsWalked

\* A search whose workspace folder is the root of the file system, for a
\* document in a directory below it that holds the file.
C17_RootWorkspace ==
    /\ found.returned
    /\ workspaceUri = <<>>
    /\ JoinParent(documentUri) \in existing
    /\ JoinParent(documentUri) # <<>>

\* A search that passed a directory without the file and returned the file
\* of the workspace root.
C17_FoundInWorkspaceRoot ==
    /\ found.returned
    /\ workspaceUri # <<>>
    /\ Len(probed) >= 2
    /\ found.file = [directory |-> workspaceUri]


\* ---------------------------------------------------------------------------
\* The spec loader: addToCache, loadSpec, loadFileData, clearCaches
\*
\* A Map is the sequence of its entries [key, value] in insertion order, the
\* order in which Map.keys() yields them.  An object is the number of its
\* creation, so that two objects are identical when the numbers are equal;
\* 0 stands for null and for a freshly made empty array.
\* ---------------------------------------------------------------------------

\* CACHE.MAX_SPEC_ENTRIES and CACHE.MAX_FILE_DATA_ENTRIES
MAX_SPEC_ENTRIES == 2

MAX_FILE_DATA_ENTRIES == 2

\* yaml.load and JSON.parse create at most MaxLoads objects.
MaxLoads == 3

\* The names with a spec file in the specs directory.
SpecFiles == {"fa", "acr", "now"}

\* The keys whose source file exists and holds an array at the path.
FileDataArrays ==
    {"data/fontawesome-icons.json:icons", "data/fontawesome-icons.json:brands",
     "data/acronyms.json:keys"}

\* What the spec file of a name is: "mapping" for a YAML mapping, "missing"
\* for no file, "malformed" for a text that yaml.load rejects.
SpecFileKind(shortcodeName) ==
    IF shortcodeName \in SpecFiles THEN "mapping"
    ELSE IF shortcodeName = "malformed" THEN "malformed"
    ELSE "missing"

\* What the data file of a key holds: "array" for an array at the path,
\* "missing" for no file at either location, "malformed" for a text that
\* JSON.parse rejects, "null" for the document null, "no path" for a path
\* that ends at undefined, "no array" for a path that leads to a string.
DataFileKind(cacheKey) ==
    IF cacheKey \in FileDataArrays THEN "array"
    ELSE IF cacheKey = "data/nonexistent.json:items" THEN "missing"
    ELSE IF cacheKey = "data/malformed.json:items" THEN "malformed"
    ELSE IF cacheKey = "data/null.json:items" THEN "null"
    ELSE IF cacheKey = "data/fontawesome-icons.json:nonexistent.path" THEN "no path"
    ELSE "no array"

\* The body of the try block of loadSpec: readFileSync throws for a missing
\* file, yaml.load for a malformed one.
TryLoadSpec(kind) ==
    IF kind \in {"missing", "malformed"} THEN "throws" ELSE "object"

\* The body of the try block of loadFileData: a file missing at both
\* locations leaves content null and returns []; JSON.parse throws for a
\* malformed text; result[part] throws for null and returns [] for a path
\* that ends at undefined; a result that is no array returns [].
TryLoadFileData(kind) ==
    IF kind = "missing" THEN "empty"
    ELSE IF kind \in {"malformed", "null"} THEN "throws"
    ELSE IF kind \in {"no path", "no array"} THEN "empty"
    ELSE "object"

\* try { ... } catch { return fallback; }
Uncaught(outcome, fallback) == outcome

Caught(outcome, fallback) == IF outcome = "throws" THEN fallback ELSE outcome

\* [...cache.keys()]
CacheKeys(cache) == [i \in 1..Len(cache) |-> cache[i].key]

\* cache.has(key)
CacheHas(cache, key) == \E i \in 1..Len(cache) : cache[i].key = key

\* cache.get(key), 0 for undefined
CacheGet(cache, key) ==
    IF CacheHas(cache, key)
    THEN cache[CHOOSE i \in 1..Len(cache) : cache[i].key = key].value
    ELSE 0

\* const cached = cache.get(key); if (cached) { return cached; }
NeverCached(cache, key) == 0

Cached(cache, key) == CacheGet(cache, key)

\* cache.delete(key)
CacheDelete(cache, key) ==
    LET kept(e) == e.key # key
    IN  SelectSeq(cache, kept)

\* cache.set(key, value)
CacheSet(cache, key, value) ==
    IF CacheHas(cache, key)
    THEN [i \in 1..Len(cache) |->
             IF cache[i].key = key THEN [key |-> key, value |-> value] ELSE cache[i]]
    ELSE Append(cache, [key |-> key, value |-> value])

\* cache.keys().next().value, "" for undefined
LastKey(cache) == IF cache = <<>> THEN "" ELSE cache[Len(cache)].key

FirstKey(cache) == IF cache = <<>> THEN "" ELSE cache[1].key

\* cache.size >= maxSize
OverCapacity(cache, maxSize) == Len(cache) > maxSize

AtCapacity(cache, maxSize) == Len(cache) >= maxSize

\* The key addToCache deletes, "" for none.
EvictedKey(cache, maxSize) ==
    IF AtCapacity(cache, maxSize) THEN FirstKey(cache) ELSE ""

addToCache(cache, key, value, maxSize) ==
    LET firstKey == EvictedKey(cache, maxSize)
    IN  CacheSet(IF firstKey # "" THEN CacheDelete(cache, firstKey) ELSE cache, key, value)

CacheInit ==
    /\ CacheIdle
    /\ NonCacheIdle

\* What a caller has seen of a call that returned a cached object.
SeenHit(function, key, cached) ==
    /\ lastCall' = [function |-> function, key |-> key, result |-> cached, read |-> FALSE,
                    held |-> lastObject[key], state |-> since[key], outcome |-> "object"]
    /\ lastObject' = [lastObject EXCEPT ![key] = cached]
    /\ since' = [since EXCEPT ![key] = "read"]

\* What a caller has seen of a call that created an object and cached it,
\* deleting the entry of the key evicted ("" for none).
SeenLoad(function, key, evicted) ==
    /\ lastCall' = [function |-> function, key |-> key, result |-> allocated + 1, read |-> TRUE,
                    held |-> lastObject[key], state |-> since[key], outcome |-> "object"]
    /\ lastObject' = [lastObject EXCEPT ![key] = allocated + 1]
    /\ since' = [k \in DOMAIN since |->
                    IF k = key THEN "none"
                    ELSE IF k # evicted THEN since[k]
                    ELSE IF since[k] = "none" THEN "evicted"
                    ELSE IF since[k] = "read" THEN "read, evicted"
                    ELSE since[k]]

\* What a caller has seen of a call that found no file or no array: the
\* outcome is "null", "empty" or, for an exception that leaves the call,
\* "throws".
SeenFailure(function, key, outcome) ==
    /\ lastCall' = [function |-> function, key |-> key, result |-> 0, read |-> TRUE,
                    held |-> lastObject[key], state |-> since[key], outcome |-> outcome]
    /\ UNCHANGED <<lastObject, since>>

\* loadSpec(shortcodeName)
LoadSpec ==
    \E shortcodeName \in SpecNames :
        LET cached == Cached(specCache, shortcodeName)
            outcome == Caught(TryLoadSpec(SpecFileKind(shortcodeName)), "null")
        IN  /\ IF cached # 0
               THEN /\ SeenHit("loadSpec", shortcodeName, cached)
                    /\ UNCHANGED <<specCache, allocated>>
               ELSE IF outcome = "object"
               THEN /\ allocated < MaxLoads
                    /\ allocated' = allocated + 1
                    /\ specCache' = addToCache(specCache, shortcodeName,
                                               allocated + 1, MAX_SPEC_ENTRIES)
                    /\ SeenLoad("loadSpec", shortcodeName,
                                EvictedKey(specCache, MAX_SPEC_ENTRIES))
               ELSE /\ SeenFailure("loadSpec", shortcodeName, outcome)
                    /\ UNCHANGED <<specCache, allocated>>
            /\ UNCHANGED fileDataCache
            /\ UNCHANGED nonCacheVars

\* loadFileData(source, dataPath)
LoadFileData ==
    \E cacheKey \in FileDataKeys :
        LET cached == Cached(fileDataCache, cacheKey)
            outcome == Caught(TryLoadFileData(DataFileKind(cacheKey)), "empty")
        IN  /\ IF cached # 0
               THEN /\ SeenHit("loadFileData", cacheKey, cached)
                    /\ UNCHANGED <<fileDataCache, allocated>>
               ELSE IF outcome = "object"
               THEN /\ allocated < MaxLoads
                    /\ allocated' = allocated + 1
                    /\ fileDataCache' = addToCache(fileDataCache, cacheKey,
                                                   allocated + 1, MAX_FILE_DATA_ENTRIES)
                    /\ SeenLoad("loadFileData", cacheKey,
                                EvictedKey(fileDataCache, MAX_FILE_DATA_ENTRIES))
               ELSE /\ SeenFailure("loadFileData", cacheKey, outcome)
                    /\ UNCHANGED <<fileDataCache, allocated>>
            /\ UNCHANGED specCache
            /\ UNCHANGED nonCacheVars

\* clearCaches()
ClearCaches ==
    /\ specCache' = <<>>
    /\ fileDataCache' = <<>>
    /\ lastCall' = [function |-> "clearCaches", key |-> "", result |-> 0, read |-> FALSE,
                    held |-> 0, state |-> "none", outcome |-> "none"]
    /\ since' = [k \in DOMAIN since |-> IF lastObject[k] # 0 THEN "cleared" ELSE since[k]]
    /\ UNCHANGED <<allocated, lastObject>>
    /\ UNCHANGED nonCacheVars

CacheNext == LoadSpec \/ LoadFileData \/ ClearCaches

CacheSpec == CacheInit /\ [][CacheNext]_vars


\* ---------------------------------------------------------------------------
\* C18  Insertion at capacity evicts the earliest-inserted key only
\* ---------------------------------------------------------------------------

\* The step from before to after inserted a new key into a cache that held
\* capacity keys: the earliest-inserted key is gone, every other entry and
\* the new one are retrievable, and nothing else is held.
EvictsEarliestOnly(before, after, capacity, key, value) ==
    (Len(before) = capacity /\ ~CacheHas(before, key))
        => /\ ~CacheHas(after, before[1].key)
           /\ \A i \in 2..Len(before) : CacheGet(after, before[i].key) = before[i].value
           /\ CacheGet(after, key) = value
           /\ Len(after) = capacity

\* The step from before to after read a key: the keys are held in the same
\* order, so the key evicted next is the same.
ReadKeepsOrder(before, after) == CacheKeys(after) = CacheKeys(before)

\* The step is a call of the function that created an object and cached it.
InsertingCall(function) ==
    /\ lastCall' # lastCall
    /\ lastCall'.function = function
    /\ lastCall'.read
    /\ lastCall'.result # 0

\* The step is a call of the function that returned a cached object.
ReadingCall(function) ==
    /\ lastCall' # lastCall
    /\ lastCall'.function = function
    /\ ~lastCall'.read

\* C18: inserting a new key into a cache that holds capacity keys removes
\* exactly the earliest-inserted key; the other earlier keys and the new key
\* remain retrievable; reading a key never changes which key is evicted next.
C18_EvictsEarliestInserted ==
    [][/\ InsertingCall("loadSpec")
          => EvictsEarliestOnly(specCache, specCache', MAX_SPEC_ENTRIES,
                                lastCall'.key, lastCall'.result)
       /\ InsertingCall("loadFileData")
          => EvictsEarliestOnly(fileDataCache, fileDataCache', MAX_FILE_DATA_ENTRIES,
                                lastCall'.key, lastCall'.result)
       /\ ReadingCall("loadSpec") => ReadKeepsOrder(specCache, specCache')
       /\ ReadingCall("loadFileData") => ReadKeepsOrder(fileDataCache, fileDataCache')]_vars

\* An insertion into the full spec cache has evicted a key that had been
\* read after it was inserted.
C18_Witness ==
    /\ lastCall.function = "loadSpec"
    /\ lastCall.read
    /\ lastCall.result # 0
    /\ Len(specCache) = MAX_SPEC_ENTRIES
    /\ \E k \in SpecNames : since[k] = "read, evicted"

\* ---------------------------------------------------------------------------
\* C19  Both caches stay within their capacity
\* ---------------------------------------------------------------------------

\* C19: after any sequence of loadSpec, loadFileData and clearCaches calls,
\* the spec cache and the file-data cache each hold no more entries than
\* their capacity.
C19_CachesWithinCapacity ==
    /\ Len(specCache) <= MAX_SPEC_ENTRIES
    /\ Len(fileDataCache) <= MAX_FILE_DATA_ENTRIES

\* A cache is full after an insertion that evicted one of its keys.
C19_Witness ==
    /\ lastCall.read
    /\ lastCall.result # 0
    /\ \/ /\ Len(specCache) = MAX_SPEC_ENTRIES
          /\ \E k \in SpecNames : since[k] = "evicted"
       \/ /\ Len(fileDataCache) = MAX_FILE_DATA_ENTRIES
          /\ \E k \in FileDataKeys : since[k] = "evicted"

\* ---------------------------------------------------------------------------
\* C20  A cached object is returned until clearCaches, a fresh one after it
\* ---------------------------------------------------------------------------

\* The step is a call of loadSpec or loadFileData.
LoadingCall ==
    /\ lastCall' # lastCall
    /\ lastCall'.function \in {"loadSpec", "loadFileData"}

\* C20: a call for a key that loaded successfully and was neither evicted
\* nor cleared since returns the identical object without reading a file or
\* creating an object; the next call for a key after clearCaches reads the
\* file again and returns an object that no earlier call has returned.
C20_CachedUntilCleared ==
    [][LoadingCall =>
        LET key == lastCall'.key
        IN  /\ (lastObject[key] # 0 /\ since[key] \in {"none", "read"})
                   => /\ lastCall'.result = lastObject[key]
                      /\ ~lastCall'.read
                      /\ allocated' = allocated
            /\ (lastObject[key] # 0 /\ since[key] = "cleared")
                   => /\ lastCall'.read
                      /\ lastCall'.result \notin 0..allocated
                      /\ allocated' = allocated + 1]_vars

\* After clearCaches a key loaded before was loaded again, and the call
\* returned another object; a second key was loaded and read in between.
C20_Witness ==
    /\ lastCall.function \in {"loadSpec", "loadFileData"}
    /\ lastCall.held # 0
    /\ lastCall.state = "cleared"
    /\ lastCall.read
    /\ lastCall.result # lastCall.held
    /\ \E k \in SpecNames \cup FileDataKeys : k # lastCall.key /\ since[k] = "read"


\* ---------------------------------------------------------------------------
\* C21  Missing or malformed definitions resolve to null or [], never throw
\* ---------------------------------------------------------------------------

\* C21: loadSpec returns null and loadFileData returns an empty list, and
\* neither throws, when the file is missing or cannot be parsed or when the
\* dot path does not lead to an array.
C21_UnavailableNeverThrows ==
    /\ lastCall.outcome # "throws"
    /\ (lastCall.function = "loadSpec" /\ SpecFileKind(lastCall.key) # "mapping")
           => lastCall.outcome = "null" /\ lastCall.result = 0
    /\ (lastCall.function = "loadFileData" /\ DataFileKind(lastCall.key) # "array")
           => lastCall.outcome = "empty" /\ lastCall.result = 0

\* loadFileData was called for a file that JSON.parse rejects, with entries
\* in its cache.
C21_Witness ==
    /\ lastCall.function = "loadFileData"
    /\ DataFileKind(lastCall.key) = "malformed"
    /\ lastCall.outcome = "empty"
    /\ fileDataCache # <<>>


\* ---------------------------------------------------------------------------
\* getUsedAttributes
\* ---------------------------------------------------------------------------

\* A content holds at most MaxUsedTokens tokens.
MaxUsedTokens == 3

\* The tokens of a content: assignments to the names a, b and ba, an
\* assignment whose value is a name, and the names as bare words.
UsedTokens ==
    {<<"a", "=", "n">>, <<"b", "=", "n">>, <<"b", "a", "=", "n">>,
     <<"n", "=", "a">>, <<"a">>, <<"b">>, <<"b", "a">>}

\* The contents of k tokens at most, separated by one space.
RECURSIVE UsedContents(_)
UsedContents(k) ==
    IF k = 0 THEN {<<>>}
    ELSE UsedTokens
             \cup {c \o <<" ">> \o t : c \in UsedContents(k - 1) \ {<<>>}, t \in UsedTokens}
             \cup {<<>>}

\* The lists of declared attribute names.
DeclaredNames ==
    {<<<<"a">>>>, <<<<"a">>, <<"b">>>>, <<<<"b">>, <<"b", "a">>>>, <<<<"b", "a">>, <<"a">>>>}

\* for (const attr of attributes) if (fullContent.includes(`${attr.name}=`)) used.add(attr.name)
getUsedAttributes(fullContent, attributes) ==
    {attributes[i] : i \in {j \in 1..Len(attributes) :
                               Includes(fullContent, attributes[j] \o <<"=">>)}}

UsedInit ==
    /\ usedContent \in UsedContents(MaxUsedTokens)
    /\ usedDeclared \in DeclaredNames
    /\ usedResult = NotUsedYet
    /\ NonUsedIdle

\* getUsedAttributes(fullContent, attributes)
GetUsedAttributes ==
    /\ usedResult = NotUsedYet
    /\ usedResult' = getUsedAttributes(usedContent, usedDeclared)
    /\ UNCHANGED <<usedContent, usedDeclared>>
    /\ UNCHANGED nonUsedVars

UsedNext == GetUsedAttributes

UsedSpec == UsedInit /\ [][UsedNext]_vars

\* ---------------------------------------------------------------------------
\* C22  Used attributes are exactly the names of the name= tokens
\* ---------------------------------------------------------------------------

\* The declared names that occur in the content as a token name=...
NamesOfAssignments(content, declared) ==
    LET tokens == SplitWhiteSpace(content)
    IN  {declared[i] : i \in {j \in 1..Len(declared) :
                                 \E t \in 1..Len(tokens) :
                                     StartsWith(tokens[t], declared[j] \o <<"=">>)}}

\* C22: getUsedAttributes returns exactly the declared names that occur in
\* the content as a name= token; a name that occurs only as a bare word or
\* as part of a longer token is not reported.  The substring test of the
\* code violates it for a name that ends a longer name.
C22_UsedAreAssignedNames ==
    usedResult # NotUsedYet
        => usedResult = NamesOfAssignments(usedContent, usedDeclared)

\* What holds of the code: every assigned name is reported, and a name that
\* occurs only as a bare word or at the start of a longer word is not.
C22_AssignedNamesAreReported ==
    usedResult # NotUsedYet
        => /\ NamesOfAssignments(usedContent, usedDeclared) \subseteq usedResult
           /\ \A name \in usedResult : Includes(usedContent, name \o <<"=">>)

\* A call on a content whose only assignment is to ba, with a declared.
C22_LongerNameAssigned ==
    /\ usedResult # NotUsedYet
    /\ usedContent = <<"b", "a", "=", "n">>
    /\ usedDeclared = <<<<"a">>>>


\* ---------------------------------------------------------------------------
\* The sort keys of attribute-name items
\* ---------------------------------------------------------------------------

\* A spec declares at most MaxAttributes attributes.
MaxAttributes == 3

\* The categories of attributes; "" is an attribute without category.
Categories == {"Style", "Behavior", "Settings", ""}

RECURSIVE CategoryLists(_)
CategoryLists(k) ==
    IF k = 0 THEN {<<>>}
    ELSE CategoryLists(k - 1)
             \cup {Append(l, c) : l \in {m \in CategoryLists(k - 1) : Len(m) = k - 1},
                                  c \in Categories}

\* a.category || 'Other'
CategoryOrOther(category) == IF category = "" THEN "Other" ELSE category

\* [...new Set(attributes.map(a => a.category || 'Other'))]
RECURSIVE DistinctCategories(_)
DistinctCategories(categories) ==
    IF categories = <<>> THEN <<>>
    ELSE LET front == DistinctCategories(SubSeq(categories, 1, Len(categories) - 1))
             last == CategoryOrOther(categories[Len(categories)])
         IN  IF \E i \in 1..Len(front) : front[i] = last THEN front
             ELSE Append(front, last)

\* categoryOrder.get(attr.category || 'Other') || 99
CategoryIndex(categories, category) ==
    LET order == DistinctCategories(categories)
        index == (CHOOSE i \in 1..Len(order) : order[i] = CategoryOrOther(category)) - 1
    IN  IF index = 0 THEN 99 ELSE index

\* The decimal digit of a number below ten.
Digit(n) ==
    CASE n = 0 -> "0" [] n = 1 -> "1" [] n = 2 -> "2" [] n = 3 -> "3" [] n = 4 -> "4"
      [] n = 5 -> "5" [] n = 6 -> "6" [] n = 7 -> "7" [] n = 8 -> "8" [] n = 9 -> "9"

\* n.toString().padStart(width, '0') for n below 10^width
PadStart(n, width) ==
    [k \in 1..width |-> Digit((n \div (10 ^ (width - k))) % 10)]

\* item.sortText of the attribute at index i (0-based)
CategorySortText(categories, i) ==
    PadStart(CategoryIndex(categories, categories[i + 1]), 2) \o PadStart(i, 3)

RankInit ==
    /\ rankCategories \in CategoryLists(MaxAttributes)
    /\ rankSortTexts = NotCalled
    /\ NonRankIdle

\* getAttributeNameCompletions for a content that uses no attribute and a
\* cursor with no typed text: one item per declared attribute.
RankAttributeNames ==
    /\ rankSortTexts = NotCalled
    /\ rankSortTexts' = [i \in 1..Len(rankCategories) |->
                            CategorySortText(rankCategories, i - 1)]
    /\ UNCHANGED rankCategories
    /\ UNCHANGED nonRankVars

RankNext == RankAttributeNames

RankSpec == RankInit /\ [][RankNext]_vars

\* ---------------------------------------------------------------------------
\* C23  Attribute names rank by category, then by declaration order
\* ---------------------------------------------------------------------------

\* The position of the first attribute of the category of attribute i; an
\* attribute without category comes after all categories.
CategoryRank(categories, i) ==
    IF categories[i] = "" THEN Len(categories) + 1
    ELSE CHOOSE j \in 1..Len(categories) :
             /\ categories[j] = categories[i]
             /\ \A k \in 1..(j - 1) : categories[k] # categories[i]

\* Attribute i is to be ranked before attribute j.
RankedBefore(categories, i, j) ==
    \/ CategoryRank(categories, i) < CategoryRank(categories, j)
    \/ CategoryRank(categories, i) = CategoryRank(categories, j) /\ i < j

\* C23: the sort keys rank attribute names first by category, the
\* categories in the order of their first appearance and attributes without
\* category last, then by declaration order.  The key of the category that
\* appears first violates it.
C23_RankedByCategoryThenOrder ==
    rankSortTexts # NotCalled
        => \A i, j \in 1..Len(rankCategories) :
               RankedBefore(rankCategories, i, j)
                   => LexLess(rankSortTexts[i], rankSortTexts[j])

\* What holds of the code: within one category the keys follow the
\* declaration order.
C23_DeclarationOrderWithinCategory ==
    rankSortTexts # NotCalled
        => \A i, j \in 1..Len(rankCategories) :
               (i < j /\ rankCategories[i] = rankCategories[j])
                   => LexLess(rankSortTexts[i], rankSortTexts[j])

\* The names of a spec with two categories were ranked.
C23_TwoCategories ==
    /\ rankSortTexts # NotCalled
    /\ rankCategories = <<"Style", "Behavior", "Style">>


\* ---------------------------------------------------------------------------
\* RoughNotationCompletionProvider.getSpanContext
\* ---------------------------------------------------------------------------

\* A line of a span is a concatenation of at most MaxSpanPieces pieces.
MaxSpanPieces == 4

\* The pieces: the braces, a space, the two class markers, and a letter.
SpanPieces ==
    {<<"{">>, <<"}">>, <<" ">>, <<".", "r", "n">>,
     <<".", "r", "n", "-", "f", "r", "a", "g", "m", "e", "n", "t">>, <<"a">>}

RECURSIVE SpanLines(_)
SpanLines(k) ==
    IF k = 0 THEN {<<>>}
    ELSE SpanLines(k - 1) \cup {l \o p : l \in SpanLines(k - 1), p \in SpanPieces}

\* What /\w/ matches among the characters of span lines.
SpanWordChars == {"r", "n", "f", "a", "g", "m", "e", "t"}

\* /(?:^|\s)CLASS\b/ matches content at offset i of its CLASS part
ClassAt(content, class, i) ==
    /\ OccursAt(content, class, i)
    /\ i = 0 \/ CharAt(content, i - 1) \in WhiteSpace
    /\ CharAt(content, i + Len(class)) \notin SpanWordChars

\* /(?:^|\s)\.rn-fragment\b/.test(content) || /(?:^|\s)\.rn\b/.test(content)
isRoughNotationSpan(content) ==
    \E i \in 0..Len(content) :
        \/ ClassAt(content, <<".", "r", "n", "-", "f", "r", "a", "g", "m", "e", "n", "t">>, i)
        \/ ClassAt(content, <<".", "r", "n">>, i)

\* The loop from cursorPos - 1 down to 0: the offset of the '{' it stops at,
\* -1 when it ends without one, -2 when it returns null at a '}'.  The
\* variant does not stop at a '}'.
RECURSIVE ScanBackPastClose(_, _)
ScanBackPastClose(line, i) ==
    IF i < 0 THEN -1
    ELSE IF CharAt(line, i) = "{" THEN i
    ELSE ScanBackPastClose(line, i - 1)

RECURSIVE ScanBack(_, _)
ScanBack(line, i) ==
    IF i < 0 THEN -1
    ELSE IF CharAt(line, i) = "{" THEN i
    ELSE IF CharAt(line, i) = "}" THEN -2
    ELSE ScanBack(line, i - 1)

\* The loop from cursorPos up to the end of the line: the offset of the '}'
\* it stops at, -1 when it ends without one, -2 when it returns null at a '{'.
RECURSIVE ScanForward(_, _)
ScanForward(line, i) ==
    IF i >= Len(line) THEN -1
    ELSE IF CharAt(line, i) = "}" THEN i
    ELSE IF CharAt(line, i) = "{" THEN -2
    ELSE ScanForward(line, i + 1)

getSpanContext(line, cursor) ==
    LET braceStart == ScanBack(line, cursor - 1)
        braceEnd == ScanForward(line, cursor)
    IN  IF braceStart < 0 THEN Null
        ELSE IF braceEnd < 0 THEN Null
        ELSE LET content == Substring(line, braceStart + 1, braceEnd)
             IN  IF ~isRoughNotationSpan(content) THEN Null
                 ELSE [content |-> content]

SpanInit ==
    /\ spanLine \in SpanLines(MaxSpanPieces)
    /\ spanCursor \in 0..Len(spanLine)
    /\ spanContext = NoSpanYet
    /\ NonSpanIdle

\* getSpanContext(lineText, position.character)
GetSpanContext ==
    /\ spanContext = NoSpanYet
    /\ spanContext' = getSpanContext(spanLine, spanCursor)
    /\ UNCHANGED <<spanLine, spanCursor>>
    /\ UNCHANGED nonSpanVars

SpanNext == GetSpanContext

SpanSpec == SpanInit /\ [][SpanNext]_vars

\* ---------------------------------------------------------------------------
\* C24  The span locator returns a span exactly for a marked enclosing span
\* ---------------------------------------------------------------------------

\* The offsets of the braces left of the cursor and from the cursor on.
BracesLeft(line, cursor) == {i \in 0..(cursor - 1) : CharAt(line, i) \in {"{", "}"}}

BracesRight(line, cursor) == {i \in cursor..(Len(line) - 1) : CharAt(line, i) \in {"{", "}"}}

\* The brace nearest to the cursor on its left and on its right.
NearestLeft(line, cursor) ==
    CHOOSE i \in BracesLeft(line, cursor) : \A j \in BracesLeft(line, cursor) : j <= i

NearestRight(line, cursor) ==
    CHOOSE i \in BracesRight(line, cursor) : \A j \in BracesRight(line, cursor) : i <= j

\* Scanning left from the cursor reaches '{' before any '}'.
OpensLeft(line, cursor) ==
    /\ BracesLeft(line, cursor) # {}
    /\ CharAt(line, NearestLeft(line, cursor)) = "{"

\* Scanning right from the cursor reaches '}' before any '{'.
ClosesRight(line, cursor) ==
    /\ BracesRight(line, cursor) # {}
    /\ CharAt(line, NearestRight(line, cursor)) = "}"

\* The text between the two braces.
Enclosed(line, cursor) ==
    Substring(line, NearestLeft(line, cursor) + 1, NearestRight(line, cursor))

\* C24: the span locator returns a span only if scanning left from the
\* cursor reaches '{' before any '}', scanning right reaches '}' before any
\* '{', and the text between the two braces carries the class marker; the
\* span is that text, and in every other case the locator returns none.
C24_SpanOnlyWhenEnclosedAndMarked ==
    spanContext # NoSpanYet
        => IF /\ OpensLeft(spanLine, spanCursor)
              /\ ClosesRight(spanLine, spanCursor)
              /\ isRoughNotationSpan(Enclosed(spanLine, spanCursor))
           THEN spanContext = [content |-> Enclosed(spanLine, spanCursor)]
           ELSE spanContext = Null

\* A span was returned for a cursor behind a closing brace of the line.
C24_Witness ==
    /\ spanContext # NoSpanYet
    /\ spanContext # Null
    /\ Includes(Substring(spanLine, 0, spanCursor), <<"}">>)


\* ---------------------------------------------------------------------------
\* C25  A context only for a directive named exactly as asked
\* ---------------------------------------------------------------------------

\* The directive whose start marker begins at s is named exactly
\* ShortcodeName: its name ends where the marker ends, at white space or at
\* the closing marker.
NamedExactly(s) ==
    \/ CharAt(lineText, s + MarkerLen) \in WhiteSpace
    \/ EndAt(s + MarkerLen)

\* C25: getShortcodeContext returns a context only when the directive
\* around the cursor is named exactly as asked; for a line whose directives
\* all carry another name it returns null.  A directive whose name begins
\* with the name asked for violates it.
C25_ContextOnlyForExactName ==
    (Located /\ baseContext # Null)
        => \E s \in MarkerOffsets : NearestMarker(s) /\ NamedExactly(s)

\* What holds of the code: a context is returned only behind the text
\* '{{< ' followed by the name.
C25_ContextOnlyBehindMarker ==
    (Located /\ baseContext # Null) => \E s \in MarkerOffsets : NearestMarker(s)

\* A context was returned for a cursor in a directive whose name is longer
\* than the name asked for.
C25_LongerName ==
    /\ Located
    /\ baseContext # Null
    /\ \E s \in MarkerOffsets : NearestMarker(s) /\ CharAt(lineText, s + MarkerLen) \in WordChars


\* ---------------------------------------------------------------------------
\* The caches keyed by document and version: hasFilter and getAcronyms
\* ---------------------------------------------------------------------------

\* The greatest version a document of the model reaches.
MaxVersion == 2

\* MAX_CACHE_ENTRIES, 100 in the source, scaled to the documents of the model.
MAX_CACHE_ENTRIES == 2

\* document.uri.toString() of the open documents: a scheme, ':' and a path in
\* which toString() leaves no ':'; the first is the beginning of the second.
Uris == {<<"u", ":", "a">>, <<"u", ":", "a", "b">>, <<"u", ":", "c">>}

\* The filter names hasFilter is asked for.
FilterNames == {"acronyms", "fontawesome"}

\* The texts of a document, by what their frontmatter declares: the filters
\* under filters: and the shortnames under acronyms.keys.
DocumentTexts ==
    {[filters |-> {"fontawesome"}, acronyms |-> <<>>],
     [filters |-> {"acronyms"}, acronyms |-> <<"qmd">>]}

\* The functions that cache by document and version: hasFilter as it stands,
\* its earlier copy, and getAcronyms.
CachedFunctions == {"hasFilter", "hasFilter (earlier)", "getAcronyms"}

\* checkFilterInDocument(document, filterName) on the text of the document
checkFilterInDocument(text, filterName) == filterName \in text.filters

\* parseAcronymsFromFrontmatter(document) on the text of the document
parseAcronymsFromFrontmatter(text) == text.acronyms

\* A key that leaves the version out: `${document.uri.toString()}`
UriAsKey(uri, version) == uri

\* `${document.uri.toString()}:${document.version}`
DocumentCacheKey(uri, version) == uri \o <<":">> \o <<Digit(version)>>

\* The beginning of the keys hasFilter takes for the keys of a document.
KeysOf(uri) == uri \o <<":">>

\* The beginning of the keys the earlier hasFilter takes for them.
KeysFrom(uri) == uri

\* The loop over the keys: the cache without the other keys of the document.
ClearOldVersions(cache, prefix, cacheKey) ==
    SelectSeq(cache, LAMBDA e : ~(StartsWith(e.key, prefix) /\ e.key # cacheKey))

\* The size limit: a cache that is full loses its first key.
EnforceSizeLimit(cache) ==
    IF Len(cache) >= MAX_CACHE_ENTRIES THEN Tail(cache) ELSE cache

\* docCache.has(filterName) and docCache.get(filterName) on the set of the
\* pairs of a docCache
DocCacheHas(docCache, filterName) == \E p \in docCache : p.name = filterName

DocCacheGet(docCache, filterName) ==
    (CHOOSE p \in docCache : p.name = filterName).result

\* hasFilter(document, filterName) on a cache: what it returns, the cache it
\* leaves, and whether it computed the result.
hasFilter(cache, uri, version, text, filterName, earlier) ==
    LET cacheKey == DocumentCacheKey(uri, version)
        held     == CacheHas(cache, cacheKey)
        docCache == IF held THEN CacheGet(cache, cacheKey) ELSE {}
    IN  IF held /\ DocCacheHas(docCache, filterName)
        THEN [result |-> DocCacheGet(docCache, filterName), cache |-> cache,
              fresh |-> FALSE]
        ELSE LET result  == checkFilterInDocument(text, filterName)
                 cleared == ClearOldVersions(cache,
                                IF earlier THEN KeysFrom(uri) ELSE KeysOf(uri),
                                cacheKey)
                 limited == IF earlier THEN cleared ELSE EnforceSizeLimit(cleared)
                 pair    == [name |-> filterName, result |-> result]
             IN  [result |-> result,
                  cache  |-> IF ~held
                             THEN Append(limited, [key |-> cacheKey, value |-> {pair}])
                             ELSE IF CacheHas(limited, cacheKey)
                             THEN CacheSet(limited, cacheKey, docCache \cup {pair})
                             ELSE limited,
                  fresh  |-> TRUE]

\* getAcronyms(document) on a cache
getAcronyms(cache, uri, version, text) ==
    LET cacheKey == DocumentCacheKey(uri, version)
    IN  IF CacheHas(cache, cacheKey)
        THEN [result |-> CacheGet(cache, cacheKey), cache |-> cache, fresh |-> FALSE]
        ELSE LET acronyms == parseAcronymsFromFrontmatter(text)
                 cleared  == ClearOldVersions(cache, KeysOf(uri), cacheKey)
                 limited  == EnforceSizeLimit(cleared)
             IN  [result |-> acronyms,
                  cache  |-> CacheSet(limited, cacheKey, acronyms),
                  fresh  |-> TRUE]

\* The documents are open at their first version; the behaviour follows the
\* cache of one of the functions.
DocumentInit ==
    /\ documents = [u \in Uris |->
                       [version |-> 1,
                        text |-> [filters |-> {"fontawesome"}, acronyms |-> <<>>]]]
    /\ cachedFunction \in CachedFunctions
    /\ versionCache = <<>>
    /\ lastAnswer = NoAnswerYet
    /\ NonDocumentIdle

\* An edit of a document: the text changes and the version grows by one.
EditDocument(u, text) ==
    /\ documents[u].version < MaxVersion
    /\ text # documents[u].text
    /\ documents' = [documents EXCEPT ![u] = [version |-> @.version + 1, text |-> text]]
    /\ UNCHANGED <<cachedFunction, versionCache, lastAnswer>>
    /\ UNCHANGED nonDocumentVars

\* What the caller of a call for document u has seen.
Answered(u, filterName, call) ==
    /\ versionCache' = call.cache
    /\ lastAnswer' = [uri |-> u, version |-> documents[u].version,
                      text |-> documents[u].text, name |-> filterName,
                      result |-> call.result, fresh |-> call.fresh]
    /\ UNCHANGED <<documents, cachedFunction>>
    /\ UNCHANGED nonDocumentVars

\* A completion request for document u calls hasFilter(document, filterName).
HasFilter(u, filterName) ==
    /\ cachedFunction = "hasFilter"
    /\ Answered(u, filterName,
           hasFilter(versionCache, u, documents[u].version, documents[u].text,
                     filterName, FALSE))

\* The same call in the earlier copy of the function.
HasFilterEarlier(u, filterName) ==
    /\ cachedFunction = "hasFilter (earlier)"
    /\ Answered(u, filterName,
           hasFilter(versionCache, u, documents[u].version, documents[u].text,
                     filterName, TRUE))

\* A completion request for document u calls getAcronyms(document).
GetAcronyms(u) ==
    /\ cachedFunction = "getAcronyms"
    /\ Answered(u, "",
           getAcronyms(versionCache, u, documents[u].version, documents[u].text))

DocumentNext ==
    \/ \E u \in Uris, text \in DocumentTexts : EditDocument(u, text)
    \/ \E u \in Uris, filterName \in FilterNames : HasFilter(u, filterName)
    \/ \E u \in Uris, filterName \in FilterNames : HasFilterEarlier(u, filterName)
    \/ \E u \in Uris : GetAcronyms(u)

DocumentSpec == DocumentInit /\ [][DocumentNext]_vars

\* C26: whatever the order of the requests for the open documents, hasFilter
\* and getAcronyms return for a document at a version the value computed from
\* the text the document has at that version.
C26_AnswerFromOwnTextAndVersion ==
    lastAnswer # NoAnswerYet =>
        lastAnswer.result =
            IF cachedFunction = "getAcronyms"
            THEN parseAcronymsFromFrontmatter(lastAnswer.text)
            ELSE checkFilterInDocument(lastAnswer.text, lastAnswer.name)

\* A cached answer for a document, given after an edit of the document and
\* while the cache holds an entry of another document.
C26_Witness ==
    /\ lastAnswer # NoAnswerYet
    /\ ~lastAnswer.fresh
    /\ lastAnswer.version > 1
    /\ lastAnswer.text.acronyms # <<>>
    /\ \E i \in 1..Len(versionCache) :
           ~StartsWith(versionCache[i].key, KeysOf(lastAnswer.uri))


\* The keys of document u under the versions other than v.
OtherVersionKeys(u, v) ==
    {DocumentCacheKey(u, w) : w \in (1..MaxVersion) \ {v}}

\* The keys of the documents other than u.
OtherDocumentKeys(u) ==
    {DocumentCacheKey(e, w) : e \in Uris \ {u}, w \in 1..MaxVersion}

\* The keys a cache holds.
HeldKeys(cache) == {cache[i].key : i \in 1..Len(cache)}

\* The key the size limit takes from a cache that has lost the other versions
\* of document u: the first key of a full cache, in the copy that has the limit.
LostToSizeLimit(cache, u, v) ==
    LET kept == SelectSeq(cache, LAMBDA e : e.key \notin OtherVersionKeys(u, v))
    IN  IF cachedFunction = "hasFilter" /\ Len(kept) >= MAX_CACHE_ENTRIES
        THEN {kept[1].key}
        ELSE {}

\* A step in which hasFilter computes a fresh result.
FreshHasFilter ==
    /\ cachedFunction \in {"hasFilter", "hasFilter (earlier)"}
    /\ documents' = documents
    /\ <<versionCache, lastAnswer>>' # <<versionCache, lastAnswer>>
    /\ lastAnswer'.fresh

\* What the claim says of the cache a fresh computation leaves.
PurgedOwnVersionsOnly ==
    /\ HeldKeys(versionCache') \cap OtherVersionKeys(lastAnswer'.uri, lastAnswer'.version) = {}
    /\ (HeldKeys(versionCache) \cap OtherDocumentKeys(lastAnswer'.uri))
           \ LostToSizeLimit(versionCache, lastAnswer'.uri, lastAnswer'.version)
         \subseteq HeldKeys(versionCache')

\* C28: after a call of hasFilter for a document at a version that computes a
\* fresh result, the filter cache holds no entry of the document under another
\* version, and the purge has removed no entry of another document.
C28_PurgeRemovesOwnVersionsOnly ==
    [][FreshHasFilter => PurgedOwnVersionsOnly]_vars

\* The same for hasFilter as it stands, the earlier copy left aside.
C28_PurgeOfLaterCopy ==
    [][(FreshHasFilter /\ cachedFunction = "hasFilter") => PurgedOwnVersionsOnly]_vars

\* A fresh result for the second version of a document, computed while the
\* cache holds an entry of a document whose URI begins with its URI.
C28_LongerUriCached ==
    /\ lastAnswer # NoAnswerYet
    /\ lastAnswer.fresh
    /\ cachedFunction = "hasFilter"
    /\ lastAnswer.uri = <<"u", ":", "a">>
    /\ lastAnswer.version = 2
    /\ DocumentCacheKey(<<"u", ":", "a", "b">>, 1) \in HeldKeys(versionCache)


\* ---------------------------------------------------------------------------
\* The brand colour cache: getBrandColors
\* ---------------------------------------------------------------------------

\* The number of calls of getBrandColors in a behaviour.
MaxRequests == 2

\* The greatest modification time a brand file of the model reaches.
MaxMtime == 2

\* const MAX_BRAND_CACHE_ENTRIES = 50
MAX_BRAND_CACHE_ENTRIES == 50

\* brandFile.toString() of the brand files findBrandFile resolves to.
BrandFiles == {"/w/_brand.yml", "/w/docs/_brand.yml"}

\* The texts of a brand file, by whether the palette stands under color: and
\* by the colours it lists.
BrandTexts ==
    {[color |-> TRUE, palette |-> <<"red">>],
     [color |-> FALSE, palette |-> <<"red", "blue">>]}

\* parseBrandColors(content): the colours of the palette under color:
parseBrandColors(content) == IF content.color THEN content.palette ELSE <<>>

\* An entry that is in the cache whatever mtime it carries.
CachedAtAll(cached, mtime) == cached # Null

\* cached && cached.mtime === stat.mtime
CachedAndUnchanged(cached, mtime) == cached # Null /\ cached.mtime = mtime

\* brandColorCache.get(cacheKey), Null for undefined
BrandCacheGet(cache, key) ==
    IF CacheHas(cache, key) THEN CacheGet(cache, key) ELSE Null

\* The size limit of brandColorCache
EnforceBrandSizeLimit(cache) ==
    IF Len(cache) >= MAX_BRAND_CACHE_ENTRIES THEN Tail(cache) ELSE cache

\* A call that has not been made.
NoRequest ==
    [pc |-> "not called", file |-> "", mtime |-> 0, cachedMtime |-> -1,
     content |-> Null, result |-> <<>>, source |-> ""]

\* The brand files exist with their first text, and no call has been made.
BrandInit ==
    /\ brandFiles = [f \in BrandFiles |->
                        [exists |-> TRUE, mtime |-> 0,
                         text |-> [color |-> TRUE, palette |-> <<"red">>]]]
    /\ brandColorCache = <<>>
    /\ brandRequests = [r \in 1..MaxRequests |-> NoRequest]
    /\ NonBrandIdle

\* The time of the latest save of a brand file.
LatestSave ==
    CHOOSE m \in {brandFiles[f].mtime : f \in BrandFiles} :
        \A f \in BrandFiles : brandFiles[f].mtime <= m

\* The brand file is saved with another text, later than every save so far.
ModifyBrandFile(f, text) ==
    /\ LatestSave < MaxMtime
    /\ text # brandFiles[f].text
    /\ brandFiles' = [brandFiles EXCEPT ![f] =
                          [exists |-> TRUE, mtime |-> LatestSave + 1, text |-> text]]
    /\ UNCHANGED <<brandColorCache, brandRequests>>
    /\ UNCHANGED nonBrandVars

\* The brand file is deleted.
DeleteBrandFile(f) ==
    /\ brandFiles[f].exists
    /\ brandFiles' = [brandFiles EXCEPT ![f].exists = FALSE]
    /\ UNCHANGED <<brandColorCache, brandRequests>>
    /\ UNCHANGED nonBrandVars

\* getBrandColors(document) up to its await of stat: findBrandFile has
\* resolved to the brand file f.
GetBrandColors(r, f) ==
    /\ brandRequests[r].pc = "not called"
    /\ brandFiles[f].exists
    /\ brandRequests' = [brandRequests EXCEPT ![r].pc = "stat", ![r].file = f]
    /\ UNCHANGED <<brandFiles, brandColorCache>>
    /\ UNCHANGED nonBrandVars

\* vscode.workspace.fs.stat(brandFile) reads the mtime of the file, or fails
\* for a file that is gone, which the catch turns into [].
Stat(r) ==
    /\ brandRequests[r].pc = "stat"
    /\ LET f == brandRequests[r].file
       IN  brandRequests' =
               IF brandFiles[f].exists
               THEN [brandRequests EXCEPT ![r].pc = "after stat",
                                          ![r].mtime = brandFiles[f].mtime]
               ELSE [brandRequests EXCEPT ![r].pc = "returned",
                                          ![r].source = "catch"]
    /\ UNCHANGED <<brandFiles, brandColorCache>>
    /\ UNCHANGED nonBrandVars

\* The call continues behind the await of stat: it returns the cached colours
\* of a file that has not changed, or goes on to read the file.
AfterStat(r) ==
    /\ brandRequests[r].pc = "after stat"
    /\ LET cached == BrandCacheGet(brandColorCache, brandRequests[r].file)
       IN  brandRequests' =
               IF CachedAndUnchanged(cached, brandRequests[r].mtime)
               THEN [brandRequests EXCEPT ![r].pc = "returned",
                                          ![r].cachedMtime = cached.mtime,
                                          ![r].result = cached.colors,
                                          ![r].source = "cache"]
               ELSE [brandRequests EXCEPT ![r].pc = "readFile"]
    /\ UNCHANGED <<brandFiles, brandColorCache>>
    /\ UNCHANGED nonBrandVars

\* vscode.workspace.fs.readFile(brandFile) reads the text of the file, or
\* fails for a file that is gone.
ReadFile(r) ==
    /\ brandRequests[r].pc = "readFile"
    /\ LET f == brandRequests[r].file
       IN  brandRequests' =
               IF brandFiles[f].exists
               THEN [brandRequests EXCEPT ![r].pc = "after readFile",
                                          ![r].content = brandFiles[f].text]
               ELSE [brandRequests EXCEPT ![r].pc = "returned",
                                          ![r].source = "catch"]
    /\ UNCHANGED <<brandFiles, brandColorCache>>
    /\ UNCHANGED nonBrandVars

\* The call continues behind the await of readFile: it parses the text,
\* enforces the size limit, sets the entry of the file and returns the colours.
AfterReadFile(r) ==
    /\ brandRequests[r].pc = "after readFile"
    /\ LET colors == parseBrandColors(brandRequests[r].content)
       IN  /\ brandColorCache' =
                  CacheSet(EnforceBrandSizeLimit(brandColorCache), brandRequests[r].file,
                           [colors |-> colors, mtime |-> brandRequests[r].mtime])
           /\ brandRequests' = [brandRequests EXCEPT ![r].pc = "returned",
                                                     ![r].result = colors,
                                                     ![r].source = "file"]
    /\ UNCHANGED brandFiles
    /\ UNCHANGED nonBrandVars

BrandNext ==
    \/ \E f \in BrandFiles, text \in BrandTexts : ModifyBrandFile(f, text)
    \/ \E f \in BrandFiles : DeleteBrandFile(f)
    \/ \E r \in 1..MaxRequests, f \in BrandFiles : GetBrandColors(r, f)
    \/ \E r \in 1..MaxRequests : Stat(r)
    \/ \E r \in 1..MaxRequests : AfterStat(r)
    \/ \E r \in 1..MaxRequests : ReadFile(r)
    \/ \E r \in 1..MaxRequests : AfterReadFile(r)

BrandSpec == BrandInit /\ [][BrandNext]_vars

\* The calls that have returned.
Returned == {r \in 1..MaxRequests : brandRequests[r].pc = "returned"}

\* C27: whatever the order of the steps of concurrent calls of getBrandColors
\* and of the modifications of the brand file, a call returns cached colours
\* only if the mtime stored with the entry equals the mtime the call has just
\* read; otherwise it reads and parses the file; and an entry of the cache is
\* always the colours and the mtime of one call, written in one step.
C27_CachedOnlyForSameMtime ==
    /\ \A r \in Returned :
           /\ brandRequests[r].source = "cache" =>
                  brandRequests[r].cachedMtime = brandRequests[r].mtime
           /\ brandRequests[r].source # "cache" =>
                  \/ brandRequests[r].source = "catch" /\ brandRequests[r].result = <<>>
                  \/ /\ brandRequests[r].source = "file"
                     /\ brandRequests[r].content # Null
                     /\ brandRequests[r].result = parseBrandColors(brandRequests[r].content)
    /\ \A i \in 1..Len(brandColorCache) :
           \E r \in Returned :
               /\ brandRequests[r].source = "file"
               /\ brandRequests[r].file = brandColorCache[i].key
               /\ brandColorCache[i].value =
                      [colors |-> brandRequests[r].result, mtime |-> brandRequests[r].mtime]

\* A call has returned the cached colours of a file that another call had
\* read, and the file has been modified since.
C27_Witness ==
    \E r \in Returned, q \in Returned :
        /\ r # q
        /\ brandRequests[r].source = "cache"
        /\ brandRequests[q].source = "file"
        /\ brandRequests[q].file = brandRequests[r].file
        /\ brandFiles[brandRequests[r].file].mtime > brandRequests[r].mtime


\* The text between the start marker and the cursor is one partially typed
\* token: after leading spaces it is not empty and holds neither white space
\* nor '='.
FirstTokenTyped ==
    /\ provider = "spec-arguments"
    /\ context # Null
    /\ TrimStart(beforeText) # <<>>
    /\ \A k \in 1..Len(beforeText) : beforeText[k] # "\t"
    /\ \A k \in 1..Len(TrimStart(beforeText)) :
           TrimStart(beforeText)[k] \notin WhiteSpace \cup {"="}

\* C29: for a directive that declares a positional argument, a request with
\* the cursor at the end of a partially typed first token T is classified as
\* completion of the primary value, with typedText = T.
C29_FirstTokenIsPrimaryValue ==
    FirstTokenTyped =>
        /\ context.completionType = "icon"
        /\ context.typedText = TrimStart(beforeText)

\* What the classification does with such a token: it is taken for the
\* primary value unless it is the name of an attribute, and only then the
\* request is one for the primary value.
C29_PrimaryOnlyForAttributeName ==
    FirstTokenTyped =>
        /\ context.typedText = TrimStart(beforeText)
        /\ context.completionType =
               IF TrimStart(beforeText) \in AttributeNames THEN "icon" ELSE "attribute-name"

\* A request behind a space and a first token that is a letter and no
\* attribute name: it is classified as completion of an attribute name.
C29_LetterTyped ==
    /\ FirstTokenTyped
    /\ beforeText = <<" ", "n">>
    /\ context.completionType = "attribute-name"


\* The cursor stands inside a closing marker: behind its first or its second
\* character.
CursorInsideEnd == \E e \in EndOffsets : e < cursorPos /\ cursorPos < e + EndLen

\* C30: for every line and every cursor offset on it, the fullContent of a
\* context returned by getShortcodeContext does not contain the closing
\* marker '>}}'.
C30_FullContentWithoutEnd ==
    (Located /\ baseContext # Null) => ~Includes(baseContext.fullContent, EndMarker)

\* What holds of the code: the fullContent is free of the closing marker
\* whenever the cursor does not stand inside a closing marker.
C30_WithoutEndOutsideOfEnd ==
    (Located /\ baseContext # Null /\ ~CursorInsideEnd) =>
        ~Includes(baseContext.fullContent, EndMarker)

\* A context returned for a cursor inside the closing marker of a directive
\* that another closing marker follows.
C30_CursorInsideEnd ==
    /\ Located
    /\ baseContext # Null
    /\ CursorInsideEnd
    /\ Includes(baseContext.fullContent, EndMarker)

====
